---------------------------- MODULE Spec2Model ----------------------------
(***************************************************************************)
(* Model of the inspiration discovery and validation pipeline of the       *)
(* MeeM prompt application:                                                *)
(*   - services/geminiService.ts : checkUrlAlive, findWebInspiration       *)
(*   - server/verify-server.js   : the Verification Proxy                  *)
(*   - the application component : handleFindInspiration,                  *)
(*                                 handleStopGeneration, handleError       *)
(*                                                                         *)
(* Strings are modelled as sequences of tokens; a token stands for a run   *)
(* of characters that the regular expressions and substring tests of the   *)
(* code never split.  The empty string is <<>>.  A missing, null or empty  *)
(* content type is <<>> as well: the code only ever tests content types    *)
(* for truthiness.  Scores are kept in tenths (2 is 20, 0.5 is 5).         *)
(***************************************************************************)
EXTENDS Integers, Sequences, FiniteSets, TLC

(***************************************************************************)
(* Bounds of the model.                                                    *)
(***************************************************************************)
MaxCount == 2
MaxItems == 2
MaxReqs == 2

(***************************************************************************)
(* Strings.                                                                *)
(***************************************************************************)
EmptyStr == <<>>

\* String.prototype.toLowerCase on one token (tokens not listed are already
\* lower case).
LowerTok(t) ==
  CASE t = "ERROR" -> "error"
    [] t = ".JPG" -> ".jpg"
    [] t = "Concrete" -> "concrete"
    [] t = "House" -> "house"
    [] t = "Brick" -> "brick"
    [] t = "Doc" -> "doc"
    [] t = "IMAGE/" -> "image/"
    [] t = "HTTPS://" -> "https://"
    [] OTHER -> t

Lower(s) == [i \in 1..Len(s) |-> LowerTok(s[i])]

\* String.prototype.includes: needle is a contiguous part of hay.
Includes(hay, needle) ==
  \E i \in 0..(Len(hay) - Len(needle)) :
     \A j \in 1..Len(needle) : hay[i + j] = needle[j]

\* encodeURIComponent on one token: ':' '/' '?' are escaped, letters,
\* digits, '-' and '.' are kept.
EncTok(t) ==
  CASE t = "https://" -> "https%3A%2F%2F"
    [] t = "HTTPS://" -> "HTTPS%3A%2F%2F"
    [] t = "http://" -> "http%3A%2F%2F"
    [] t = "ftp://" -> "ftp%3A%2F%2F"
    [] t = "/" -> "%2F"
    [] t = "?" -> "%3F"
    [] t = " " -> "%20"
    [] OTHER -> t

encodeURIComponent(s) == [i \in 1..Len(s) |-> EncTok(s[i])]

SchemeToks == {"https://", "http://", "HTTPS://", "ftp://"}

\* new URL(u).hostname: the tokens between the scheme and the first "/" or
\* "?", lower-cased; ParseOk is FALSE where the constructor throws.
ParseOk(u) == Len(u) >= 2 /\ u[1] \in SchemeToks /\ u[2] \notin {"/", "?"}

HostEnd(u) ==
  LET stops == {i \in 2..Len(u) : u[i] \in {"/", "?"}}
  IN  IF stops = {} THEN Len(u)
      ELSE (CHOOSE i \in stops : \A k \in stops : i <= k) - 1

hostname(u) == Lower(SubSeq(u, 2, HostEnd(u)))


(***************************************************************************)
(* services/geminiService.ts: constants and regular expressions.           *)
(***************************************************************************)
preferredHosts ==
  {<<"dezeen.com">>, <<"archdaily.com">>, <<"unsplash.com">>,
   <<"pexels.com">>, <<"architizer.com">>}

\* /\.(jpe?g|png|webp|gif)(\?|$)/i
ImageExts == {".jpg", ".jpeg", ".png", ".webp", ".gif"}

ExtAt(u, exts) ==
  \E i \in 1..Len(u) :
     /\ LowerTok(u[i]) \in exts
     /\ (i = Len(u) \/ u[i + 1] = "?")

\* isLikelyImageUrl with $ alone for (\?|$).
isLikelyImageUrlAtEnd(u) ==
  u # EmptyStr /\ LowerTok(u[Len(u)]) \in ImageExts

isLikelyImageUrl(u) == u # EmptyStr /\ ExtAt(u, ImageExts)

\* /404|notfound|error|page-not-found/i
DeadWords == {"404", "notfound", "error", "page-not-found"}

\* LooksDead without the i flag.
LooksDeadExact(u) == \E i \in 1..Len(u) : u[i] \in DeadWords

LooksDead(u) == \E i \in 1..Len(u) : LowerTok(u[i]) \in DeadWords

\* /image\//i and /pdf/i on a content type
IsImageType(ct) == \E i \in 1..Len(ct) : LowerTok(ct[i]) = "image/"
IsPdfType(ct) == \E i \in 1..Len(ct) : LowerTok(ct[i]) = "pdf"

NoCT == EmptyStr
CTJpeg == <<"image/", "jpeg">>
CTPdf == <<"application/", "pdf">>
ContentTypes == {NoCT, CTJpeg, CTPdf}

(***************************************************************************)
(* server/verify-server.js.                                                *)
(*                                                                         *)
(* What the target host does with the HEAD request of doHeadCheck: the     *)
(* request errors (or url.parse / lib.request throws), it times out, or a  *)
(* response arrives.                                                       *)
(***************************************************************************)
HeadStatuses == {200, 301, 404}

HeadOutcomes ==
  {[kind |-> k, status |-> 0, ct |-> NoCT] : k \in {"error", "timeout"}}
  \cup
  {[kind |-> "response", status |-> st, ct |-> c] :
      st \in HeadStatuses, c \in ContentTypes}

\* doHeadCheck: the value the promise resolves with.  On error and on
\* timeout the object has the single key alive.
doHeadCheck(targetUrl, head) ==
  IF head.kind = "response"
  THEN [alive |-> head.status >= 200 /\ head.status < 400,
        status |-> head.status,
        contentType |-> head.ct]
  ELSE [alive |-> FALSE]

\* HttpPrefixed without the i flag.
HttpPrefixedExact(target) ==
  Len(target) >= 1 /\ target[1] \in {"https://", "http://"}

\* /^https?:\/\//i
HttpPrefixed(target) ==
  Len(target) >= 1 /\ LowerTok(target[1]) \in {"https://", "http://"}

\* const target = q.url || q.u
Target(q) == IF q.url # EmptyStr THEN q.url ELSE q.u

\* The two early answers of the request handler; "none" where the handler
\* goes on to doHeadCheck.
MissingBody == [error |-> "missing url parameter"]
InvalidBody ==
  [error |-> "invalid url parameter, must start with http/https"]

EarlyAnswer(q) ==
  IF Target(q) = EmptyStr THEN [statusCode |-> 400, body |-> MissingBody]
  ELSE IF ~HttpPrefixed(Target(q))
       THEN [statusCode |-> 400, body |-> InvalidBody]
       ELSE [statusCode |-> 0, body |-> [none |-> TRUE]]

\* The whole handler as a function of the query and of what the target does.
VerifyAnswer(q, head) ==
  IF EarlyAnswer(q).statusCode = 400 THEN EarlyAnswer(q)
  ELSE [statusCode |-> 200, body |-> doHeadCheck(Target(q), head)]

(***************************************************************************)
(* checkUrlAlive.                                                          *)
(*                                                                         *)
(* proxy : what fetch(verifyServer?url=...) gives: "unreachable" (fetch    *)
(*         throws or is aborted by the timeout), "garbage" (an answer      *)
(*         whose JSON has no alive key or cannot be parsed), or "answer"   *)
(*         with the Verification Proxy's response.                         *)
(* direct: what fetch(url, HEAD) gives: "throws" (CORS, abort, network)    *)
(*         or a response with res.ok and the content-type header.          *)
(* The result carries the requests that were issued, in order.             *)
(***************************************************************************)
ProxyOutcomes(url) ==
  {[kind |-> k, resp |-> [statusCode |-> 0, body |-> [none |-> TRUE]]] :
      k \in {"unreachable", "garbage"}}
  \cup
  {[kind |-> "answer",
    resp |-> VerifyAnswer([url |-> url, u |-> EmptyStr], h)] :
      h \in HeadOutcomes}

DirectOutcomes ==
  {[kind |-> "throws", ok |-> FALSE, ct |-> NoCT]}
  \cup
  {[kind |-> "response", ok |-> o, ct |-> c] :
      o \in BOOLEAN, c \in ContentTypes}

ProxyUsable(p) ==
  /\ p.kind = "answer"
  /\ p.resp.statusCode >= 200 /\ p.resp.statusCode < 300
  /\ "alive" \in DOMAIN p.resp.body

BodyContentType(body) ==
  IF "contentType" \in DOMAIN body THEN body.contentType ELSE NoCT

ProxyCall(url) == [to |-> "proxy", url |-> url]
DirectCall(url) == [to |-> "direct", url |-> url]

checkUrlAlive(url, proxy, direct) ==
  IF url = EmptyStr
  THEN [alive |-> FALSE, contentType |-> NoCT, calls |-> <<>>]
  ELSE IF LooksDead(url)
  THEN [alive |-> FALSE, contentType |-> NoCT, calls |-> <<>>]
  ELSE IF ProxyUsable(proxy)
  THEN [alive |-> proxy.resp.body.alive,
        contentType |-> BodyContentType(proxy.resp.body),
        calls |-> <<ProxyCall(url)>>]
  ELSE IF direct.kind = "response"
  THEN [alive |-> direct.ok,
        contentType |-> direct.ct,
        calls |-> <<ProxyCall(url), DirectCall(url)>>]
  ELSE [alive |-> isLikelyImageUrl(url),
        contentType |-> NoCT,
        calls |-> <<ProxyCall(url), DirectCall(url)>>]

\* Every result checkUrlAlive can give for a URL, over all network answers.
CheckResults(url) ==
  {checkUrlAlive(url, p, d) : p \in ProxyOutcomes(url), d \in DirectOutcomes}


(***************************************************************************)
(* The URLs, titles and tags the collaborators answer with.                *)
(***************************************************************************)
uDezeen == <<"https://", "www.", "dezeen.com", "/", "concrete", "-", "house">>
uDoc == <<"https://", "example.org", "/", "doc">>
uRef == <<"https://", "example.org", "/", "ref", "?", "dezeen.com">>
uPexels == <<"https://", "www.", "pexels.com", "/", "photo", "/", "1">>
uArtist == <<"https://", "www.", "pexels.com", "/", "@", "artist">>
iJpg == <<"https://", "cdn.", "example.org", "/", "a", ".JPG">>
iGone == <<"https://", "cdn.", "example.org", "/", "404", "/", "b", ".jpg">>
iPexels == <<"https://", "images.", "pexels.com", "/", "1", ".jpeg">>

tHouse == <<"Concrete", " ", "House">>
tDoc == <<"Doc">>

\* attributeTags: the third line of the description, split at commas.
TagLists == {<<>>, <<<<"brick">>, <<"concrete", " ", "House">>>>}

\* String.prototype.split(' ') on a token sequence, as the sequence of parts.
RECURSIVE SplitSpace(_)
SplitSpace(s) ==
  LET sp == {i \in 1..Len(s) : s[i] = " "}
  IN  IF sp = {} THEN <<s>>
      ELSE LET k == CHOOSE i \in sp : \A j \in sp : i <= j
           IN  <<SubSeq(s, 1, k - 1)>> \o SplitSpace(SubSeq(s, k + 1, Len(s)))

RECURSIVE SumSeq(_)
SumSeq(q) == IF q = <<>> THEN 0 ELSE Head(q) + SumSeq(Tail(q))

\* All sequences over S of length at most n.
RECURSIVE SeqsUpTo(_, _)
SeqsUpTo(S, n) ==
  IF n = 0 THEN {<<>>}
  ELSE LET shorter == SeqsUpTo(S, n - 1)
       IN  shorter \cup {Append(q, x) : q \in {r \in shorter : Len(r) = n - 1}, x \in S}

\* Array.prototype.slice(0, n) for n >= 0.
Slice(q, n) == SubSeq(q, 1, IF n < Len(q) THEN n ELSE Len(q))

\* Array.prototype.filter, keep[i] being what the callback answers for q[i]
FilterSeq(q, keep) ==
  LET idx == {i \in 1..Len(q) : keep[i]}
      nth(r) == CHOOSE i \in idx : Cardinality({j \in idx : j < i}) = r - 1
  IN  [r \in 1..Cardinality(idx) |-> q[nth(r)]]

\* The sort with equal scores in reverse order.
SortByScoreTiesReversed(q) ==
  LET rank(i) == Cardinality({j \in 1..Len(q) :
                     \/ q[j]._score > q[i]._score
                     \/ (q[j]._score = q[i]._score /\ j > i)}) + 1
  IN  [r \in 1..Len(q) |-> q[CHOOSE i \in 1..Len(q) : rank(i) = r]]

\* Array.prototype.sort((a, b) => b._score - a._score): descending by score,
\* stable (equal scores keep their order).
SortByScore(q) ==
  LET rank(i) == Cardinality({j \in 1..Len(q) :
                     \/ q[j]._score > q[i]._score
                     \/ (q[j]._score = q[i]._score /\ j < i)}) + 1
  IN  [r \in 1..Len(q) |-> q[CHOOSE i \in 1..Len(q) : rank(i) = r]]

\* Array.from(new Set(q)): first occurrences, in order.
RECURSIVE Unique(_)
Unique(q) ==
  IF q = <<>> THEN <<>>
  ELSE LET init == SubSeq(q, 1, Len(q) - 1)
           last == q[Len(q)]
       IN  IF \E i \in 1..Len(init) : init[i] = last
           THEN Unique(init)
           ELSE Append(Unique(init), last)

Min(a, b) == IF a < b THEN a ELSE b

(***************************************************************************)
(* Stage 1: searchPexels.                                                  *)
(***************************************************************************)
PhotoPool ==
  {[url |-> uPexels, photographer_url |-> uArtist, src |-> iPexels],
   [url |-> EmptyStr, photographer_url |-> uArtist, src |-> iPexels],
   [url |-> uPexels, photographer_url |-> EmptyStr, src |-> EmptyStr],
   [url |-> EmptyStr, photographer_url |-> EmptyStr, src |-> iPexels]}

PexelsResponses ==
  {[kind |-> k, photos |-> <<>>] : k \in {"throws", "notOk", "noPhotos"}}
  \cup
  {[kind |-> "photos", photos |-> ph] : ph \in SeqsUpTo(PhotoPool, MaxItems)}

MapPhoto(p) ==
  [uri |-> IF p.url # EmptyStr THEN p.url ELSE p.photographer_url,
   title |-> <<"Pexels">>,
   source |-> <<"pexels.com">>,
   previewUrl |-> p.src]

PhotoKept(c) == c.previewUrl # EmptyStr /\ c.uri # EmptyStr

\* The value searchPexels resolves with; [isNull |-> TRUE] is null.
NullList == [isNull |-> TRUE, list |-> <<>>]

searchPexels(resp, perPage) ==
  IF resp.kind # "photos" THEN NullList
  ELSE LET all == [i \in 1..Len(resp.photos) |-> MapPhoto(resp.photos[i])]
           mapped == FilterSeq(all, [i \in 1..Len(all) |-> PhotoKept(all[i])])
       IN  IF Len(mapped) = 0 THEN NullList
           ELSE [isNull |-> FALSE, list |-> Slice(mapped, perPage)]

\* StockEnds asking for a full page of results.
StockEndsWhenFull(pexResults, n) ==
  ~pexResults.isNull /\ Len(pexResults.list) >= n

\* if (pexResults && pexResults.length >= Math.min(1, count))
StockEnds(pexResults, n) ==
  ~pexResults.isNull /\ Len(pexResults.list) >= Min(1, n)


(***************************************************************************)
(* Stage 2: the grounded search answer and its citation chunks.            *)
(***************************************************************************)
\* chunk.web of a grounding chunk; image stands for web.image, web.imageUrl
\* or web.ogImage.
ChunkPool ==
  {[uri |-> uDezeen, title |-> tHouse, image |-> EmptyStr, matchReason |-> EmptyStr],
   [uri |-> uDoc, title |-> tDoc, image |-> iJpg, matchReason |-> EmptyStr],
   [uri |-> uRef, title |-> tDoc, image |-> iGone, matchReason |-> EmptyStr],
   [uri |-> uDoc, title |-> EmptyStr, image |-> EmptyStr, matchReason |-> EmptyStr],
   [uri |-> EmptyStr, title |-> tHouse, image |-> iJpg, matchReason |-> EmptyStr]}

GroundedResponses ==
  {[kind |-> "throws", chunks |-> <<>>]}
  \cup
  {[kind |-> "answer", chunks |-> ch] : ch \in SeqsUpTo(ChunkPool, MaxItems)}

SnapUrl(uri) ==
  <<"https://", "api.apiflash.com", "/", "v1", "/", "urltoimage", "?",
    "access_key=KEY", "&url=">>
  \o encodeURIComponent(uri)
  \o <<"&format=jpeg", "&quality=80", "&thumbnail_width=800">>

MicrolinkUrl(uri) == <<"https://", "i.microlink.io", "/">> \o uri

\* .filter(chunk => chunk.web && chunk.web.uri && chunk.web.title)
ChunkKept(c) == c.uri # EmptyStr /\ c.title # EmptyStr

MapChunk(c, apiflash) ==
  [uri |-> c.uri,
   title |-> c.title,
   source |-> IF ParseOk(c.uri) THEN hostname(c.uri) ELSE c.uri,
   previewUrl |-> IF c.image # EmptyStr THEN c.image
                  ELSE IF apiflash THEN SnapUrl(c.uri)
                  ELSE MicrolinkUrl(c.uri),
   matchReason |-> c.matchReason]

rawCandidates(chunks, apiflash) ==
  LET kept == FilterSeq(chunks, [i \in 1..Len(chunks) |-> ChunkKept(chunks[i])])
  IN  [i \in 1..Len(kept) |-> MapChunk(kept[i], apiflash)]

(***************************************************************************)
(* Validation of one candidate: the chain of checkUrlAlive calls.          *)
(***************************************************************************)
\* first.contentType || second.contentType
OrElse(a, b) == IF a # NoCT THEN a ELSE b

Verdicts(url) ==
  {[alive |-> r.alive, contentType |-> r.contentType] : r \in CheckResults(url)}

\* The outcomes of the three-step check of a candidate: the preview URL, then
\* the page, then (with a snapshot key) the snapshot of the page.  checked is
\* the sequence of URLs handed to checkUrlAlive, found what it answered.
Liveness(item, apiflash) ==
  LET firstV == Verdicts(item.previewUrl)
      pageV == Verdicts(item.uri)
      snapV == Verdicts(SnapUrl(item.uri))
  IN
  UNION {
    IF first.alive \/ item.uri = EmptyStr
    THEN {[imageUrl |-> item.previewUrl, alive |-> first.alive,
           contentType |-> first.contentType,
           checked |-> <<item.previewUrl>>, found |-> <<first.alive>>]}
    ELSE UNION {
      IF page.alive \/ ~apiflash
      THEN {[imageUrl |-> item.previewUrl, alive |-> page.alive,
             contentType |-> OrElse(first.contentType, page.contentType),
             checked |-> <<item.previewUrl, item.uri>>,
             found |-> <<FALSE, page.alive>>]}
      ELSE {[imageUrl |-> IF snap.alive THEN SnapUrl(item.uri) ELSE item.previewUrl,
             alive |-> snap.alive,
             contentType |->
               IF snap.alive
               THEN OrElse(snap.contentType,
                           OrElse(first.contentType, page.contentType))
               ELSE OrElse(first.contentType, page.contentType),
             checked |-> <<item.previewUrl, item.uri, SnapUrl(item.uri)>>,
             found |-> <<FALSE, FALSE, snap.alive>>] :
            snap \in snapV}
      : page \in pageV}
    : first \in firstV}

(***************************************************************************)
(* Scoring (tenths of a point).                                            *)
(***************************************************************************)
WordGrounded == 5
WordFallback == 6
ExtBonus == 12
ExtBonusFallback == 10
TypeBonus == 15
HostBonus == 15
AliveBonus == 20
TagBonus == 20
KeepScore == 20

Hay(item) ==
  Lower(item.title \o <<" ">> \o item.uri \o <<" ">> \o item.previewUrl
        \o <<" ">> \o item.matchReason)

\* tagMatchers.forEach with the points of the words taken off.
TagScoreWordsOff(item, tags, perWord) ==
  LET one(tag) ==
        IF tag = EmptyStr THEN 0
        ELSE (IF Includes(Hay(item), tag) THEN TagBonus ELSE 0)
             - SumSeq([k \in 1..Len(SplitSpace(tag)) |->
                  LET part == SplitSpace(tag)[k]
                  IN  IF part # EmptyStr /\ Includes(Hay(item), part)
                      THEN perWord ELSE 0])
  IN  SumSeq([t \in 1..Len(tags) |-> one(Lower(tags[t]))])

\* tagMatchers.forEach(tag => { if (!tag) return; if (hay.includes(tag))
\*   score += 2; tag.split(' ').forEach(p => { if (p && hay.includes(p))
\*   score += perWord; }); })
TagScore(item, tags, perWord) ==
  LET one(tag) ==
        IF tag = EmptyStr THEN 0
        ELSE (IF Includes(Hay(item), tag) THEN TagBonus ELSE 0)
             + SumSeq([k \in 1..Len(SplitSpace(tag)) |->
                  LET part == SplitSpace(tag)[k]
                  IN  IF part # EmptyStr /\ Includes(Hay(item), part)
                      THEN perWord ELSE 0])
  IN  SumSeq([t \in 1..Len(tags) |-> one(Lower(tags[t]))])

\* new URL(item.uri).hostname; preferredHosts.some(h => host.includes(h))
HostPreferred(uri) ==
  ParseOk(uri) /\ \E h \in preferredHosts : Includes(hostname(uri), h)

\* preferredHosts.some(h => i.uri.includes(h)), as the filter has it
UriMentionsPreferred(uri) == \E h \in preferredHosts : Includes(uri, h)

\* The liveness points without the one for the content type.
LiveScoreNoType(imageUrl, alive, contentType) ==
  (IF isLikelyImageUrl(imageUrl) THEN ExtBonus ELSE 0)
  + (IF alive THEN AliveBonus ELSE 0)

LiveScore(imageUrl, alive, contentType) ==
  (IF isLikelyImageUrl(imageUrl) THEN ExtBonus ELSE 0)
  + (IF contentType # NoCT /\ IsImageType(contentType) THEN TypeBonus ELSE 0)
  + (IF alive THEN AliveBonus ELSE 0)

\* scoreFor of the fallback path (lines 319-326).
scoreFor(item, tags) ==
  TagScore(item, tags, WordFallback)
  + (IF item.previewUrl # EmptyStr
        /\ ExtAt(item.previewUrl, ImageExts \ {".gif"})
     THEN ExtBonusFallback ELSE 0)
  + (IF HostPreferred(item.uri) THEN HostBonus ELSE 0)

\* if (isPdf) alive = false
AliveAfterPdf(alive, contentType) ==
  IF contentType # NoCT /\ IsPdfType(contentType) THEN FALSE ELSE alive

\* One validated entry: { ...item, previewUrl: imageUrl, _score, _alive,
\* _contentType }.  base is the score the item brings along.
Validated(item, base, lv) ==
  [uri |-> item.uri, title |-> item.title, source |-> item.source,
   previewUrl |-> lv.imageUrl, matchReason |-> item.matchReason,
   _score |-> base + LiveScore(lv.imageUrl, lv.alive, lv.contentType),
   _alive |-> AliveAfterPdf(lv.alive, lv.contentType),
   _contentType |-> lv.contentType]

\* The filter without its score clause.
AcceptedAliveOnly(v) ==
  \/ (v._alive /\ v._contentType # NoCT /\ IsImageType(v._contentType))
  \/ (UriMentionsPreferred(v.uri) /\ v._alive)

\* The filter of both paths (lines 260-265 and 368-372).
Accepted(v) ==
  \/ (v._alive /\ v._contentType # NoCT /\ IsImageType(v._contentType))
  \/ v._score >= KeepScore
  \/ (UriMentionsPreferred(v.uri) /\ v._alive)

\* ({ _score, _alive, _contentType, ...rest }) => rest
Strip(v) ==
  [uri |-> v.uri, title |-> v.title, source |-> v.source,
   previewUrl |-> v.previewUrl, matchReason |-> v.matchReason]

\* Chosen without the slice.
ChosenUnsliced(entries, n) ==
  SortByScore(FilterSeq(entries, [i \in 1..Len(entries) |-> Accepted(entries[i])]))

\* filter, sort, slice(0, count)
Chosen(entries, n) ==
  Slice(SortByScore(FilterSeq(entries,
                              [i \in 1..Len(entries) |-> Accepted(entries[i])])), n)

\* ... and strip
Select(entries, n) ==
  LET chosen == Chosen(entries, n)
  IN  [i \in 1..Len(chosen) |-> Strip(chosen[i])]


(***************************************************************************)
(* Stage 3 and 4: the free-text answer, its JSON and its bare URLs.        *)
(*                                                                         *)
(* The answer text is a JSON body followed by commentary.  body says what   *)
(* JSON.parse makes of the first {...} / [...] substring: an array of the  *)
(* items, an object, or a syntax error ("broken": the items are there but  *)
(* the brackets are not balanced; "none": there is no JSON at all).        *)
(* notes are the URLs of the commentary, each with the character that      *)
(* follows it ("" or ")").  Inside the body every URL is a quoted string,  *)
(* so a URL pattern that runs up to the next blank or comma takes the      *)
(* closing quote with it.                                                  *)
(***************************************************************************)
JsonItemPool ==
  {[url |-> uDezeen, uri |-> EmptyStr, title |-> tHouse, imageUrl |-> iJpg,
    source |-> EmptyStr, matchReason |-> <<"concrete">>],
   [url |-> uDoc, uri |-> EmptyStr, title |-> EmptyStr, imageUrl |-> EmptyStr,
    source |-> <<"example">>, matchReason |-> EmptyStr],
   [url |-> EmptyStr, uri |-> uDoc, title |-> tDoc, imageUrl |-> EmptyStr,
    source |-> EmptyStr, matchReason |-> EmptyStr],
   [url |-> EmptyStr, uri |-> EmptyStr, title |-> tDoc, imageUrl |-> iJpg,
    source |-> EmptyStr, matchReason |-> EmptyStr]}

NotePool == {[url |-> uDoc, trail |-> EmptyStr], [url |-> iJpg, trail |-> <<")">>]}

MaxNotes == 1

FallbackResponses ==
  {[kind |-> "throws", body |-> "none", items |-> <<>>, notes |-> <<>>]}
  \cup
  {[kind |-> "text", body |-> b, items |-> IF b = "none" THEN <<>> ELSE it,
    notes |-> n] :
      b \in {"array", "object", "broken", "none"},
      it \in SeqsUpTo(JsonItemPool, MaxItems),
      n \in SeqsUpTo(NotePool, MaxNotes)}

Quote == <<"\"">>

RECURSIVE Flatten(_)
Flatten(qq) == IF qq = <<>> THEN <<>> ELSE Head(qq) \o Flatten(Tail(qq))

\* The matches of /(https?:\/\/[^\s,]+)/g (stopAtBracket = FALSE) and of
\* /(https?:\/\/[^\s,\]\)]+)/g (stopAtBracket = TRUE) in the text, in order.
UrlMatches(text, stopAtBracket) ==
  LET quoted(u) == IF u = EmptyStr THEN <<>> ELSE <<u \o Quote>>
      ofItem(it) == quoted(it.url) \o quoted(it.uri) \o quoted(it.imageUrl)
      ofNote(n) == <<n.url \o (IF stopAtBracket THEN EmptyStr ELSE n.trail)>>
  IN  Flatten([i \in 1..Len(text.items) |-> ofItem(text.items[i])])
      \o Flatten([i \in 1..Len(text.notes) |-> ofNote(text.notes[i])])

HostOr(u, other) == IF ParseOk(u) THEN hostname(u) ELSE other

\* parsed: JSON.parse of the extracted substring or, when that throws, the
\* URLs of the text as objects with the titles "Result i".  isArray is
\* Array.isArray(parsed).
Parsed(text, n) ==
  IF text.body = "array" THEN [isArray |-> TRUE, items |-> text.items]
  ELSE IF text.body = "object" THEN [isArray |-> FALSE, items |-> <<>>]
  ELSE LET urls == Unique(Slice(UrlMatches(text, FALSE), n))
       IN  [isArray |-> TRUE,
            items |-> [i \in 1..Len(urls) |->
                         [url |-> urls[i], uri |-> EmptyStr,
                          title |-> <<"Result ", ToString(i)>>,
                          imageUrl |-> urls[i],
                          source |-> HostOr(urls[i], urls[i]),
                          matchReason |-> EmptyStr]]]

MapJsonItem(it) ==
  [uri |-> IF it.url # EmptyStr THEN it.url ELSE it.uri,
   title |-> IF it.title # EmptyStr THEN it.title ELSE <<"Inspiration">>,
   source |-> IF it.source # EmptyStr THEN it.source
              ELSE HostOr(IF it.url # EmptyStr THEN it.url ELSE it.uri,
                          <<"unknown">>),
   previewUrl |-> IF it.imageUrl # EmptyStr THEN it.imageUrl
                  ELSE IF it.url # EmptyStr THEN MicrolinkUrl(it.url)
                  ELSE EmptyStr,
   matchReason |-> it.matchReason]

\* The filter of the mapped objects without its test.
HasUriOrNot(c) == c.uri # EmptyStr \/ c.uri = EmptyStr

\* .filter(i => i.uri)
HasUri(c) == c.uri # EmptyStr

WithScore(c, sc) ==
  [uri |-> c.uri, title |-> c.title, source |-> c.source,
   previewUrl |-> c.previewUrl, matchReason |-> c.matchReason, _score |-> sc]

\* inspirations after the mapping and the scoring (lines 309-328), in the
\* order of the parsed array.
Mapped(items, tags) ==
  LET all == [i \in 1..Len(items) |-> MapJsonItem(items[i])]
      mapped == FilterSeq(all, [i \in 1..Len(all) |-> HasUri(all[i])])
  IN  [i \in 1..Len(mapped) |-> WithScore(mapped[i], scoreFor(mapped[i], tags))]

\* ... and after the sort (line 329).
Scored(items, tags) == SortByScore(Mapped(items, tags))

HarvestFactor == 3

\* extraUrls.forEach(u => { if (inspirations.length >= count) return;
\*   if (inspirations.find(x => x.uri === u)) return; inspirations.push(...) })
RECURSIVE PushExtra(_, _, _)
PushExtra(insp, urls, n) ==
  IF urls = <<>> THEN insp
  ELSE LET u == Head(urls)
       IN  IF Len(insp) >= n \/ (\E i \in 1..Len(insp) : insp[i].uri = u)
           THEN PushExtra(insp, Tail(urls), n)
           ELSE PushExtra(
                  Append(insp, [uri |-> u, title |-> u, source |-> HostOr(u, u),
                                previewUrl |-> u, matchReason |-> EmptyStr,
                                _score |-> 0]),
                  Tail(urls), n)

\* Harvests with <= for <.
HarvestsWhenFull(insp, n) == Len(insp) <= n

\* if (inspirations.length < count) { ... } (lines 332-340)
Harvests(insp, n) == Len(insp) < n

Harvested(insp, text, n) ==
  IF Harvests(insp, n)
  THEN PushExtra(insp,
                 Unique(Slice(UrlMatches(text, TRUE), n * HarvestFactor)),
                 n)
  ELSE insp


(***************************************************************************)
(* State.                                                                  *)
(*                                                                         *)
(* The application component:                                              *)
(*   uploadedImage, detectedAttributes : whether the state value is set    *)
(*   inspirationImages : "null" or "list"; the handlers read no more of it *)
(*   appStep, isLoading, error : as in the component ("null" is null)      *)
(*   abortRef : abortControllerRef.current is the controller of the        *)
(*              running handleFindInspiration                              *)
(*   aborted  : controller.signal.aborted of that controller               *)
(*   closure  : the state values the handler's handleError closed over     *)
(* One invocation of findWebInspiration:                                   *)
(*   pc       : "idle", the call it is suspended at ("synth", "stock",     *)
(*              "grounded", "fallback", "validate") or "done"              *)
(*   count, tags, apiflashKey : its inputs and environment                 *)
(*   stages   : the retrieval stages started so far, in order              *)
(*   yields   : for each stage that has finished, how many candidates it   *)
(*              produced (items) and whether its answer had anything in    *)
(*              it (hits: a photo with both URLs, a citation chunk, an     *)
(*              element of the parsed array, an appended URL); ok is FALSE *)
(*              for a stage whose error left findWebInspiration            *)
(*   checks   : the number of validation tasks run                         *)
(*   path     : which stage produced the candidates                        *)
(*   cands    : the candidates handed to validation                        *)
(*   validated: per candidate, whether its validation task has finished    *)
(*              and the entry it produced                                  *)
(*   outcome  : how the invocation ended: a returned list or a thrown      *)
(*              Error                                                      *)
(*   selected : the entries of the returned list as they were before the   *)
(*              internal fields were stripped                              *)
(* cands and validated are locals of the invocation and are gone when it   *)
(* has settled.                                                            *)
(* The Verification Proxy:                                                 *)
(*   reqs     : per request, the query, the number of HEAD requests made,  *)
(*              what the target did with it and the responses written      *)
(* checkUrlAlive on its own:                                               *)
(*   probe    : a URL, the network's answers and the result                *)
(* The validation, scoring and selection of a candidate list on its own:   *)
(*   trial    : the candidates, the tags, the liveness outcomes and what   *)
(*              the filter, the sort and the slice make of them; on the    *)
(*              fallback path the first fromArray candidates come from the *)
(*              parsed array, the others were harvested from the text      *)
(***************************************************************************)
VARIABLES uploadedImage, detectedAttributes, inspirationImages, appStep,
          isLoading, error, abortRef, aborted, closure,
          pc, count, tags, apiflashKey, stages, yields, checks, path, cands,
          validated, outcome, selected, reqs, probe, trial, ops, hist

appVars == <<uploadedImage, detectedAttributes, inspirationImages, appStep,
             isLoading, error, abortRef, aborted, closure>>
pipeVars == <<pc, count, tags, apiflashKey, stages, yields, checks, path,
              cands, validated, outcome, selected>>
vars == <<appVars, pipeVars, reqs, probe, trial, ops, hist>>

\* at is the call the invocation was suspended at when it settled.
NoOutcome == [kind |-> "none", list |-> <<>>, message |-> "null", at |-> "none"]
Returned(list) == [kind |-> "returned", list |-> list, message |-> "null", at |-> pc]
Threw(msg) == [kind |-> "threw", list |-> <<>>, message |-> msg, at |-> pc]

Yield(stage, ok, hits, items) ==
  [stage |-> stage, ok |-> ok, hits |-> hits, items |-> items]

NoClosure == [detectedAttributes |-> FALSE, inspirationImages |-> FALSE,
              uploadedImage |-> FALSE]

NoHead == [kind |-> "none", status |-> 0, ct |-> NoCT]

NoReq == [at |-> "none", q |-> [url |-> EmptyStr, u |-> EmptyStr],
          heads |-> 0, head |-> NoHead, responses |-> <<>>]

NoProbe == [url |-> EmptyStr, ran |-> FALSE,
            result |-> [alive |-> FALSE, contentType |-> NoCT, calls |-> <<>>],
            proxy |-> [kind |-> "unreachable",
                       resp |-> [statusCode |-> 0, body |-> [none |-> TRUE]]],
            direct |-> [kind |-> "throws", ok |-> FALSE, ct |-> NoCT]]

\* No answer text.
NoText == [kind |-> "none", body |-> "none", items |-> <<>>, notes |-> <<>>]

NoTrial == [ran |-> FALSE, path |-> "none", tags |-> <<>>, apiflash |-> FALSE,
            count |-> 0, raw |-> <<>>, cands |-> <<>>, fromArray |-> 0,
            lvs |-> <<>>,
            vs |-> <<>>, chosen |-> <<>>, text |-> NoText]

\* The operations of the component that own an AbortController: ref is
\* abortControllerRef.current (0 is null, otherwise the number of the
\* operation whose controller it holds), list the operations started so far,
\* models whether setModelConfig has stored a fetched model list.
NoOps == [ref |-> 0, list |-> <<>>, models |-> FALSE]

\* HistoryService after its construction: historyState, the three sets of
\* save keys, the background requests in flight and the ids handed out.
NoHist == [items |-> <<>>, selectedItemId |-> 0, pendingSaves |-> {},
           failedSaves |-> {}, succeededSaves |-> {}, inflight |-> {},
           nextId |-> 1]

AppInit ==
  /\ uploadedImage = FALSE
  /\ detectedAttributes = FALSE
  /\ inspirationImages = "null"
  /\ appStep = "uploading"
  /\ isLoading = FALSE
  /\ error = "null"
  /\ abortRef = FALSE
  /\ aborted = FALSE
  /\ closure = NoClosure

PipeIdle ==
  /\ pc = "idle"
  /\ count = 0
  /\ tags = <<>>
  /\ stages = <<>>
  /\ yields = <<>>
  /\ checks = 0
  /\ path = "none"
  /\ cands = <<>>
  /\ validated = <<>>
  /\ outcome = NoOutcome
  /\ selected = <<>>

Init ==
  /\ AppInit
  /\ PipeIdle
  /\ apiflashKey \in BOOLEAN
  /\ reqs = [r \in 1..MaxReqs |-> NoReq]
  /\ probe = NoProbe
  /\ trial = NoTrial
  /\ ops = NoOps
  /\ hist = NoHist

(***************************************************************************)
(* The application component.                                              *)
(***************************************************************************)
QuotaMessage == "You've exceeded your free API quota."
\* The empty result shown as no message at all.
NoMessage == "null"

NoInspirationMessage == "Could not find any inspiration images."

\* The step handleStopGeneration and handleError fall back to.
SensibleStep(detected, inspirations, uploaded) ==
  IF detected THEN "analyzed"
  ELSE IF inspirations THEN "showingInspiration"
  ELSE IF uploaded THEN "choosePath"
  ELSE "uploading"

\* The record of a settled invocation is dropped when the user moves on.
ForgetRun ==
  /\ pc' = "idle"
  /\ count' = 0
  /\ tags' = <<>>
  /\ stages' = <<>>
  /\ yields' = <<>>
  /\ checks' = 0
  /\ path' = "none"
  /\ outcome' = NoOutcome
  /\ selected' = <<>>
  /\ UNCHANGED <<apiflashKey, cands, validated>>

\* handleImageChange: resetState(), then the new image.  The analysis
\* handlers, the only writers of detectedAttributes, are outside this model.
HandleImageChange ==
  /\ ~isLoading
  /\ pc \in {"idle", "done"}
  /\ uploadedImage' = TRUE
  /\ detectedAttributes' = FALSE
  /\ inspirationImages' = "null"
  /\ error' = "null"
  /\ appStep' = "choosePath"
  /\ ForgetRun
  /\ UNCHANGED <<isLoading, abortRef, aborted, closure, reqs, probe, trial, ops, hist>>

\* handleStopGeneration
HandleStopGeneration ==
  /\ isLoading
  /\ aborted' = (aborted \/ abortRef)
  /\ abortRef' = FALSE
  /\ isLoading' = FALSE
  /\ error' = "null"
  /\ appStep' = SensibleStep(detectedAttributes, inspirationImages # "null",
                             uploadedImage)
  /\ UNCHANGED <<uploadedImage, detectedAttributes, inspirationImages,
                 closure, pipeVars, reqs, probe, trial, ops, hist>>

\* handleError taking every error for the user's cancellation.
HandleErrorSilently(message) == "null"

\* handleError(err, ...) for the Error findWebInspiration throws: it is never
\* a DOMException named AbortError.
HandleErrorMessage(message) ==
  IF message = "Failed to find inspiration: 429 RESOURCE_EXHAUSTED"
  THEN QuotaMessage
  ELSE message

\* handleFindInspiration up to its await: the controller, the loading state
\* and the call of findWebInspiration, which runs up to its first await (the
\* description request).  The application passes 3 as the count; the model
\* lets the count range over 0..MaxCount.
HandleFindInspiration(n) ==
  /\ uploadedImage
  /\ ~isLoading
  /\ pc \in {"idle", "done"}
  /\ abortRef' = TRUE
  /\ aborted' = FALSE
  /\ appStep' = "findingInspiration"
  /\ isLoading' = TRUE
  /\ error' = "null"
  /\ closure' = [detectedAttributes |-> detectedAttributes,
                 inspirationImages |-> inspirationImages # "null",
                 uploadedImage |-> uploadedImage]
  /\ pc' = "synth"
  /\ count' = n
  /\ tags' = <<>>
  /\ stages' = <<>>
  /\ yields' = <<>>
  /\ checks' = 0
  /\ path' = "none"
  /\ cands' = <<>>
  /\ validated' = <<>>
  /\ outcome' = NoOutcome
  /\ selected' = <<>>
  /\ UNCHANGED <<uploadedImage, detectedAttributes, inspirationImages,
                 apiflashKey, reqs, probe, trial, ops, hist>>

\* The rest of handleFindInspiration, run when findWebInspiration settles:
\* the aborted test, the two result branches, the catch and the finally.
Resume(out, sel) ==
  /\ pc' = "done"
  /\ outcome' = out
  /\ selected' = sel
  /\ cands' = <<>>
  /\ validated' = <<>>
  /\ IF out.kind = "returned"
     THEN IF aborted
          THEN UNCHANGED <<error, appStep, inspirationImages>>
          ELSE IF Len(out.list) = 0
          THEN /\ error' = NoInspirationMessage
               /\ appStep' = "choosePath"
               /\ UNCHANGED inspirationImages
          ELSE /\ inspirationImages' = "list"
               /\ appStep' = "showingInspiration"
               /\ UNCHANGED error
     ELSE /\ error' = HandleErrorMessage(out.message)
          /\ appStep' = SensibleStep(closure.detectedAttributes,
                                     closure.inspirationImages,
                                     closure.uploadedImage)
          /\ UNCHANGED inspirationImages
  /\ abortRef' = FALSE
  /\ isLoading' = FALSE
  /\ UNCHANGED <<uploadedImage, detectedAttributes, aborted, closure>>


(***************************************************************************)
(* findWebInspiration, one action per suspension point.                    *)
(***************************************************************************)
\* The outer catch: throw new Error(`Failed to find inspiration: ${...}`).
Rethrown(reason) ==
  CASE reason = "quota" -> "Failed to find inspiration: 429 RESOURCE_EXHAUSTED"
    [] reason = "init" -> "Failed to find inspiration: Gemini API not initialized."
    [] OTHER -> "Failed to find inspiration: fetch failed"

FailReasons == {"quota", "init", "network"}

\* getAI() throws or the description request fails.
SynthFails(reason) ==
  /\ pc = "synth"
  /\ Resume(Threw(Rethrown(reason)), <<>>)
  /\ UNCHANGED <<count, tags, apiflashKey, stages, yields, checks, path,
                 reqs, probe, trial, ops, hist>>

\* The description arrives; getPexelsKey() is read; the next request goes
\* out: the Pexels search with a key, the grounded search without.
SynthDone(tagList, pexelsKey) ==
  /\ pc = "synth"
  /\ tags' = tagList
  /\ pc' = IF pexelsKey THEN "stock" ELSE "grounded"
  /\ stages' = IF pexelsKey THEN <<"stock">> ELSE <<"grounded">>
  /\ UNCHANGED <<appVars, count, apiflashKey, yields, checks, path, cands,
                 validated, outcome, selected, reqs, probe, trial, ops, hist>>

\* The number of photos of the answer that have both URLs.
ValidPhotos(resp) ==
  IF resp.kind # "photos" THEN 0
  ELSE Cardinality({i \in 1..Len(resp.photos) : PhotoKept(MapPhoto(resp.photos[i]))})

\* The Pexels search settles (lines 173-181).
StockDone(resp) ==
  /\ pc = "stock"
  /\ yields' = Append(yields, Yield("stock", TRUE, ValidPhotos(resp) > 0,
                                    ValidPhotos(resp)))
  /\ LET pexResults == searchPexels(resp, count)
     IN  IF StockEnds(pexResults, count)
         THEN /\ Resume(Returned(Slice(pexResults.list, count)),
                        Slice(pexResults.list, count))
              /\ path' = "stock"
              /\ UNCHANGED stages
         ELSE /\ pc' = "grounded"
              /\ stages' = Append(stages, "grounded")
              /\ UNCHANGED <<appVars, outcome, selected, path, cands, validated>>
  /\ UNCHANGED <<count, tags, apiflashKey, checks, reqs, probe, trial, ops, hist>>

\* The slot of a validation task that has not settled yet.  stalled: the task
\* is at "await res.json()" of a proxy response whose body does not arrive.
NoEntry == [uri |-> EmptyStr, title |-> EmptyStr, source |-> EmptyStr,
            previewUrl |-> EmptyStr, matchReason |-> EmptyStr, _score |-> 0,
            _alive |-> FALSE, _contentType |-> NoCT]

Pending(n) ==
  [i \in 1..n |-> [done |-> FALSE, stalled |-> FALSE, v |-> NoEntry]]

\* Promise.all over the candidates: with none it resolves at once and the
\* invocation returns the (empty) selection; otherwise the tasks start.
StartValidation(list) ==
  IF Len(list) = 0
  THEN Resume(Returned(Select(<<>>, count)), <<>>)
  ELSE /\ pc' = "validate"
       /\ cands' = list
       /\ validated' = Pending(Len(list))
       /\ UNCHANGED <<appVars, outcome, selected>>

\* The grounded search settles (lines 206-267): it throws, or it carries
\* chunks and the validation tasks start, or it carries none and the
\* free-text request goes out.
GroundedDone(resp) ==
  /\ pc = "grounded"
  /\ IF resp.kind = "throws"
     THEN /\ Resume(Threw(Rethrown("network")), <<>>)
          /\ yields' = Append(yields, Yield("grounded", FALSE, FALSE, 0))
          /\ UNCHANGED <<stages, path>>
     ELSE IF Len(resp.chunks) > 0
     THEN /\ path' = "grounded"
          /\ yields' = Append(yields,
                 Yield("grounded", TRUE, TRUE,
                       Len(rawCandidates(resp.chunks, apiflashKey))))
          /\ UNCHANGED stages
          /\ StartValidation(rawCandidates(resp.chunks, apiflashKey))
     ELSE /\ pc' = "fallback"
          /\ stages' = Append(stages, "fallback")
          /\ yields' = Append(yields, Yield("grounded", TRUE, FALSE, 0))
          /\ UNCHANGED <<appVars, outcome, selected, path, cands, validated>>
  /\ UNCHANGED <<count, tags, apiflashKey, checks, reqs, probe, trial, ops, hist>>

\* The free-text request settles (lines 285-340, 374-377).
FallbackDone(resp) ==
  /\ pc = "fallback"
  /\ IF resp.kind = "throws"
     THEN /\ Resume(Returned(<<>>), <<>>)
          /\ yields' = Append(yields, Yield("fallback", TRUE, FALSE, 0))
          /\ UNCHANGED <<stages, path>>
     ELSE LET parsed == Parsed(resp, count)
          IN  IF ~parsed.isArray \/ Len(parsed.items) = 0
              THEN /\ Resume(Returned(<<>>), <<>>)
                   /\ yields' = Append(yields, Yield("fallback", TRUE, FALSE, 0))
                   /\ UNCHANGED <<stages, path>>
              ELSE LET insp == Scored(parsed.items, tags)
                       all == Harvested(insp, resp, count)
                       ran == Yield("fallback", TRUE, TRUE, Len(insp))
                   IN  /\ path' = "fallback"
                       /\ stages' = IF Harvests(insp, count)
                                    THEN Append(stages, "harvest")
                                    ELSE stages
                       /\ yields' =
                            IF Harvests(insp, count)
                            THEN yields \o
                                 <<ran, Yield("harvest", TRUE,
                                              Len(all) > Len(insp),
                                              Len(all) - Len(insp))>>
                            ELSE Append(yields, ran)
                       /\ StartValidation(all)
  /\ UNCHANGED <<count, tags, apiflashKey, checks, reqs, probe, trial, ops, hist>>

\* The score a candidate brings to its validation task: on the grounded path
\* the task computes the tag and host points itself, on the fallback path
\* they are item._score.
BaseScoreOn(p, tagList, item) ==
  IF p = "grounded"
  THEN TagScore(item, tagList, WordGrounded)
       + (IF HostPreferred(item.uri) THEN HostBonus ELSE 0)
  ELSE item._score

BaseScore(item) == BaseScoreOn(path, tags, item)

\* Promise.all settling as soon as one task has.
AnyDone(vd) == \E i \in 1..Len(vd) : vd[i].done

\* Promise.all: every task has settled.
AllDone(vd) == \A i \in 1..Len(vd) : vd[i].done

\* One validation task of the Promise.all runs to its end (lines 230-258 and
\* 343-366).
ValidateOne(i) ==
  /\ pc = "validate"
  /\ i \in 1..Len(cands)
  /\ ~validated[i].done
  /\ ~validated[i].stalled
  /\ \E lv \in Liveness(cands[i], apiflashKey) :
        validated' = [validated EXCEPT ![i] =
                        [done |-> TRUE, stalled |-> FALSE,
                         v |-> Validated(cands[i], BaseScore(cands[i]), lv)]]
  /\ checks' = checks + 1
  /\ UNCHANGED <<appVars, pc, count, tags, apiflashKey, stages, yields, path,
                 cands, outcome, selected, reqs, probe, trial, ops, hist>>

\* A URL for which checkUrlAlive gets as far as asking the proxy.
AsksProxy(url) == url # EmptyStr /\ ~LooksDead(url)

\* The task checks item.previewUrl first, and item.uri when that is not alive.
ReachesProxy(item) ==
  \/ AsksProxy(item.previewUrl)
  \/ (item.uri # EmptyStr /\ AsksProxy(item.uri))

\* checkUrlAlive clears its timer as soon as fetch resolves with the proxy's
\* response head and then awaits res.json() with no timer left: when the body
\* does not arrive, that await does not settle and neither does the task.
BodyStalls(i) ==
  /\ pc = "validate"
  /\ i \in 1..Len(cands)
  /\ ~validated[i].done
  /\ ~validated[i].stalled
  /\ ReachesProxy(cands[i])
  /\ validated' = [validated EXCEPT ![i].stalled = TRUE]
  /\ UNCHANGED <<appVars, pc, count, tags, apiflashKey, stages, yields, path,
                 cands, checks, outcome, selected, reqs, probe, trial, ops, hist>>

\* The results collected in the reverse of the candidates' order.
EntriesReversed ==
  [i \in 1..Len(validated) |-> validated[Len(validated) + 1 - i].v]

\* What Promise.all resolves to: the results in the order of the candidates.
Entries == [i \in 1..Len(validated) |-> validated[i].v]

\* Promise.all resolves: filter, sort, slice, strip, return.
Finish ==
  /\ pc = "validate"
  /\ AllDone(validated)
  /\ Resume(Returned(Select(Entries, count)), Chosen(Entries, count))
  /\ UNCHANGED <<count, tags, apiflashKey, stages, yields, checks, path,
                 reqs, probe, trial, ops, hist>>

Next ==
  \/ HandleImageChange
  \/ HandleStopGeneration
  \/ \E n \in 0..MaxCount : HandleFindInspiration(n)
  \/ \E reason \in FailReasons : SynthFails(reason)
  \/ \E tagList \in TagLists, pexelsKey \in BOOLEAN : SynthDone(tagList, pexelsKey)
  \/ \E resp \in PexelsResponses : StockDone(resp)
  \/ \E resp \in GroundedResponses : GroundedDone(resp)
  \/ \E resp \in FallbackResponses : FallbackDone(resp)
  \/ \E i \in 1..MaxItems + 1 : ValidateOne(i)
  \/ \E i \in 1..MaxItems + 1 : BodyStalls(i)
  \/ Finish

Spec == Init /\ [][Next]_vars

(***************************************************************************)
(* The Verification Proxy as a server: requests arrive, the handler either *)
(* answers at once or issues the HEAD request and answers when doHeadCheck *)
(* resolves.  Requests are served concurrently.                            *)
(***************************************************************************)
uFtp == <<"ftp://", "example.org", "/", "a", ".jpg">>
uUpper == <<"HTTPS://", "example.org", "/", "doc">>

\* The query strings: ?url=..., ?u=..., both or neither.
QueryPool ==
  {[url |-> a, u |-> b] : a \in {EmptyStr, uDoc, uFtp}, b \in {EmptyStr, uUpper}}

\* The handler up to its await (lines 32-48).
Receive(r, q) ==
  /\ reqs[r].at = "none"
  /\ reqs' = [reqs EXCEPT ![r] =
       IF EarlyAnswer(q).statusCode = 400
       THEN [at |-> "answered", q |-> q, heads |-> 0, head |-> NoHead,
             responses |-> <<EarlyAnswer(q)>>]
       ELSE [at |-> "head", q |-> q, heads |-> 1, head |-> NoHead,
             responses |-> <<>>]]
  /\ UNCHANGED <<appVars, pipeVars, probe, trial, ops, hist>>

\* doHeadCheck resolves and the handler writes its answer (lines 48-50).
HeadSettles(r, head) ==
  /\ reqs[r].at = "head"
  /\ reqs' = [reqs EXCEPT ![r] =
       [at |-> "answered", q |-> @.q, heads |-> @.heads, head |-> head,
        responses |-> Append(@.responses,
                             [statusCode |-> 200,
                              body |-> doHeadCheck(Target(@.q), head)])]]
  /\ UNCHANGED <<appVars, pipeVars, probe, trial, ops, hist>>

NextProxy ==
  \/ \E r \in 1..MaxReqs, q \in QueryPool : Receive(r, q)
  \/ \E r \in 1..MaxReqs, head \in HeadOutcomes : HeadSettles(r, head)

SpecProxy == Init /\ [][NextProxy]_vars

(***************************************************************************)
(* checkUrlAlive on its own: one call with a URL and the network's         *)
(* answers.                                                                *)
(***************************************************************************)
iQuery == <<"https://", "cdn.", "example.org", "/", "a", ".png", "?", "w=800">>
iFragment == <<"https://", "cdn.", "example.org", "/", "a", ".png", "#", "top">>

ProbeUrls ==
  {EmptyStr, uDoc, iJpg, iGone, uFtp, uUpper, iQuery, iFragment,
   <<"https://", "example.org", "/", "ERROR", "/", "a", ".jpg">>,
   <<"https://", "example.org", "/", "notfound">>,
   <<"https://", "example.org", "/", "page-not-found", ".png">>,
   MicrolinkUrl(iGone), SnapUrl(iGone), SnapUrl(uDoc)}

\* The inputs of a call: the URL and what the network would answer.
ProbeInputs ==
  UNION {{[url |-> url, ran |-> FALSE, proxy |-> p, direct |-> d,
           result |-> NoProbe.result] :
             p \in ProxyOutcomes(url), d \in DirectOutcomes} : url \in ProbeUrls}

InitCheck ==
  /\ AppInit
  /\ PipeIdle
  /\ apiflashKey = FALSE
  /\ reqs = [r \in 1..MaxReqs |-> NoReq]
  /\ probe \in ProbeInputs
  /\ trial = NoTrial
  /\ ops = NoOps
  /\ hist = NoHist

Probe ==
  /\ ~probe.ran
  /\ probe' = [probe EXCEPT !.ran = TRUE,
                            !.result = checkUrlAlive(probe.url, probe.proxy,
                                                     probe.direct)]
  /\ UNCHANGED <<appVars, pipeVars, reqs, trial, ops, hist>>

NextCheck == Probe

SpecCheck == InitCheck /\ [][NextCheck]_vars

(***************************************************************************)
(* The fan-out on its own: findWebInspiration from the moment the grounded *)
(* search has handed its candidates to Promise.all.  The tasks are         *)
(* promises started together; a task that can still settle does settle     *)
(* (each fetch of checkUrlAlive is aborted by its timer, lines 37 and 50),  *)
(* and Promise.all resolves once all have settled: hence the fairness      *)
(* conditions.                                                             *)
(***************************************************************************)
InitFan ==
  /\ uploadedImage = TRUE
  /\ detectedAttributes = FALSE
  /\ inspirationImages = "null"
  /\ appStep = "findingInspiration"
  /\ isLoading = TRUE
  /\ error = "null"
  /\ abortRef = TRUE
  /\ aborted = FALSE
  /\ closure = [detectedAttributes |-> FALSE, inspirationImages |-> FALSE,
                uploadedImage |-> TRUE]
  /\ pc = "validate"
  /\ count \in 0..MaxCount
  /\ tags \in TagLists
  /\ apiflashKey \in BOOLEAN
  /\ stages = <<"grounded">>
  /\ path = "grounded"
  /\ \E ch \in SeqsUpTo(ChunkPool, MaxItems) :
        /\ cands = rawCandidates(ch, apiflashKey)
        /\ Len(cands) >= 1
  /\ yields = <<Yield("grounded", TRUE, TRUE, Len(cands))>>
  /\ checks = 0
  /\ validated = Pending(Len(cands))
  /\ outcome = NoOutcome
  /\ selected = <<>>
  /\ reqs = [r \in 1..MaxReqs |-> NoReq]
  /\ probe = NoProbe
  /\ trial = NoTrial
  /\ ops = NoOps
  /\ hist = NoHist

NextFan ==
  \/ \E i \in 1..MaxItems : ValidateOne(i)
  \/ \E i \in 1..MaxItems : BodyStalls(i)
  \/ Finish
  \/ HandleStopGeneration

SpecFan ==
  /\ InitFan
  /\ [][NextFan]_vars
  /\ \A i \in 1..MaxItems : WF_vars(ValidateOne(i))
  /\ WF_vars(Finish)

(***************************************************************************)
(* Validation, scoring and selection on their own: a candidate list as a   *)
(* retrieval stage hands it over, one outcome of the liveness checks per   *)
(* candidate, and the filter, sort and slice of the result.                *)
(***************************************************************************)
tBrick == <<"Brick">>
tScattered == <<"house", " ", "apartment", " ", "mid-rise", " ", "concrete",
                " ", "exposed", " ", "raw">>

TrialTagLists ==
  {<<<<"brick">>, <<"concrete", " ", "House">>>>,
   <<<<"brick">>, <<"raw", " ", "exposed", " ", "concrete">>,
     <<"mid-rise", " ", "apartment", " ", "house">>>>}

TrialChunks ==
  {[uri |-> uDoc, title |-> tBrick, image |-> iJpg, matchReason |-> EmptyStr],
   [uri |-> uDoc, title |-> tScattered, image |-> iJpg, matchReason |-> EmptyStr],
   [uri |-> uDoc, title |-> tDoc, image |-> iJpg, matchReason |-> EmptyStr],
   [uri |-> uRef, title |-> tDoc, image |-> iGone, matchReason |-> EmptyStr],
   [uri |-> uDezeen, title |-> tHouse, image |-> EmptyStr, matchReason |-> EmptyStr]}

TrialJsonItems ==
  {[url |-> uDoc, uri |-> EmptyStr, title |-> tBrick, imageUrl |-> iQuery,
    source |-> EmptyStr, matchReason |-> EmptyStr],
   [url |-> uDoc, uri |-> EmptyStr, title |-> tScattered, imageUrl |-> iQuery,
    source |-> EmptyStr, matchReason |-> EmptyStr],
   [url |-> uDoc, uri |-> EmptyStr, title |-> tDoc, imageUrl |-> iQuery,
    source |-> EmptyStr, matchReason |-> EmptyStr],
   [url |-> uDezeen, uri |-> EmptyStr, title |-> tHouse, imageUrl |-> iJpg,
    source |-> EmptyStr, matchReason |-> <<"concrete">>],
   [url |-> uRef, uri |-> EmptyStr, title |-> EmptyStr, imageUrl |-> EmptyStr,
    source |-> <<"example">>, matchReason |-> EmptyStr]}

\* What the grounded path and the fallback path hand to the validation: raw
\* in the order the stage produced the candidates, cands in the order the
\* validation takes them.
TrialInputs ==
  {[ran |-> FALSE, path |-> "grounded", tags |-> t, apiflash |-> k,
    count |-> MaxCount, raw |-> rawCandidates(ch, k),
    cands |-> rawCandidates(ch, k), fromArray |-> 0, lvs |-> <<>>,
    vs |-> <<>>, chosen |-> <<>>, text |-> NoText] :
      t \in TrialTagLists, k \in BOOLEAN,
      ch \in SeqsUpTo(TrialChunks, MaxItems) \ {<<>>}}
  \cup
  {[ran |-> FALSE, path |-> "fallback", tags |-> t, apiflash |-> k,
    count |-> MaxCount,
    raw |-> Harvested(Mapped(it, t),
                      [body |-> "array", items |-> it, notes |-> n], MaxCount),
    cands |-> Harvested(Scored(it, t),
                        [body |-> "array", items |-> it, notes |-> n], MaxCount),
    fromArray |-> Len(Scored(it, t)),
    lvs |-> <<>>, vs |-> <<>>, chosen |-> <<>>, text |-> NoText] :
      t \in TrialTagLists, k \in BOOLEAN,
      it \in SeqsUpTo(TrialJsonItems, MaxItems) \ {<<>>},
      n \in SeqsUpTo(NotePool, MaxNotes)}

InitVal ==
  /\ AppInit
  /\ PipeIdle
  /\ apiflashKey = FALSE
  /\ reqs = [r \in 1..MaxReqs |-> NoReq]
  /\ probe = NoProbe
  /\ trial \in TrialInputs
  /\ ops = NoOps
  /\ hist = NoHist

\* One outcome of the liveness checks for each candidate.
RECURSIVE LivenessRuns(_, _)
LivenessRuns(list, apiflash) ==
  IF list = <<>> THEN {<<>>}
  ELSE {<<lv>> \o rest : lv \in Liveness(Head(list), apiflash),
                         rest \in LivenessRuns(Tail(list), apiflash)}

\* const validated = await Promise.all(...); filter, sort, slice.
ValidateAll ==
  /\ ~trial.ran
  /\ \E lvs \in LivenessRuns(trial.cands, trial.apiflash) :
       LET vs == [i \in 1..Len(trial.cands) |->
                    Validated(trial.cands[i],
                              BaseScoreOn(trial.path, trial.tags, trial.cands[i]),
                              lvs[i])]
       IN  trial' = [trial EXCEPT !.ran = TRUE, !.lvs = lvs, !.vs = vs,
                                  !.chosen = Chosen(vs, trial.count)]
  /\ UNCHANGED <<appVars, pipeVars, reqs, probe, ops, hist>>

NextVal == ValidateAll

SpecVal == InitVal /\ [][NextVal]_vars

(***************************************************************************)
(* The fallback stage on its own: findWebInspiration from the moment the   *)
(* free-text request is out, with the answer text that will arrive held in *)
(* trial.text, up to the start of the validation or the early return.      *)
(***************************************************************************)
InitText ==
  /\ uploadedImage = TRUE
  /\ detectedAttributes = FALSE
  /\ inspirationImages = "null"
  /\ appStep = "findingInspiration"
  /\ isLoading = TRUE
  /\ error = "null"
  /\ abortRef = TRUE
  /\ aborted = FALSE
  /\ closure = [detectedAttributes |-> FALSE, inspirationImages |-> FALSE,
                uploadedImage |-> TRUE]
  /\ pc = "fallback"
  /\ count \in 0..MaxCount
  /\ tags \in TagLists
  /\ apiflashKey = FALSE
  /\ stages = <<"grounded", "fallback">>
  /\ path = "none"
  /\ cands = <<>>
  /\ yields = <<Yield("grounded", TRUE, FALSE, 0)>>
  /\ checks = 0
  /\ validated = <<>>
  /\ outcome = NoOutcome
  /\ selected = <<>>
  /\ reqs = [r \in 1..MaxReqs |-> NoReq]
  /\ probe = NoProbe
  /\ \E resp \in FallbackResponses :
        /\ resp.kind = "text"
        /\ trial = [NoTrial EXCEPT !.text = resp]
  /\ ops = NoOps
  /\ hist = NoHist

\* The answer arrives.
TextArrives == FallbackDone(trial.text)

NextText == TextArrives

SpecText == InitText /\ [][NextText]_vars

(***************************************************************************)
(* The operations of the component side by side.  Every operation makes   *)
(* its own AbortController and stores it in the one abortControllerRef;    *)
(* handleStopGeneration aborts the controller the ref holds.  Here the     *)
(* controllers are kept per operation in ops (abortRef and aborted of the  *)
(* one-invocation model stay as they are), and findWebInspiration is taken *)
(* by what it settles with.  stopped and applied are history: whether the  *)
(* operation was running when Stop was pressed, and whether it has written *)
(* its result into the state.                                              *)
(***************************************************************************)
MaxOps == 3

NewOp(kind) ==
  [kind |-> kind, aborted |-> FALSE, running |-> TRUE, stopped |-> FALSE,
   applied |-> FALSE,
   closure |-> [detectedAttributes |-> detectedAttributes,
                inspirationImages |-> inspirationImages # "null",
                uploadedImage |-> uploadedImage]]

InitOps ==
  /\ uploadedImage = TRUE
  /\ detectedAttributes = FALSE
  /\ inspirationImages = "null"
  /\ appStep = "choosePath"
  /\ isLoading = FALSE
  /\ error = "null"
  /\ abortRef = FALSE
  /\ aborted = FALSE
  /\ closure = NoClosure
  /\ PipeIdle
  /\ apiflashKey = FALSE
  /\ reqs = [r \in 1..MaxReqs |-> NoReq]
  /\ probe = NoProbe
  /\ trial = NoTrial
  /\ ops = NoOps
  /\ hist = NoHist

\* handleFindInspiration up to its await (part_000 lines 373-389).
StartFindInspiration ==
  /\ uploadedImage
  /\ ~isLoading
  /\ Len(ops.list) < MaxOps
  /\ ops' = [ops EXCEPT !.ref = Len(ops.list) + 1,
                        !.list = Append(@, NewOp("find"))]
  /\ appStep' = "findingInspiration"
  /\ isLoading' = TRUE
  /\ error' = "null"
  /\ UNCHANGED <<uploadedImage, detectedAttributes, inspirationImages,
                 abortRef, aborted, closure, pipeVars, reqs, probe, trial,
                 hist>>

\* handleFetchOllamaModels up to its await (part_000 lines 915-921).
StartFetchOllamaModels ==
  /\ Len(ops.list) < MaxOps
  /\ ops' = [ops EXCEPT !.ref = Len(ops.list) + 1,
                        !.list = Append(@, NewOp("models"))]
  /\ error' = "null"
  /\ UNCHANGED <<uploadedImage, detectedAttributes, inspirationImages,
                 appStep, isLoading, abortRef, aborted, closure, pipeVars,
                 reqs, probe, trial, hist>>

\* handleStopGeneration (part_000 lines 182-194) with the controllers of ops.
StopOperations ==
  /\ isLoading
  /\ ops' = [ops EXCEPT
               !.ref = 0,
               !.list = [i \in 1..Len(ops.list) |->
                           [ops.list[i] EXCEPT
                              !.aborted = @ \/ (i = ops.ref),
                              !.stopped = @ \/ ops.list[i].running]]]
  /\ isLoading' = FALSE
  /\ error' = "null"
  /\ appStep' = SensibleStep(detectedAttributes, inspirationImages # "null",
                             uploadedImage)
  /\ UNCHANGED <<uploadedImage, detectedAttributes, inspirationImages,
                 abortRef, aborted, closure, pipeVars, reqs, probe, trial,
                 hist>>

\* What findWebInspiration settles with.
FindOutcomes ==
  {[kind |-> "returned", empty |-> e, message |-> "null"] : e \in BOOLEAN}
  \cup {[kind |-> "threw", empty |-> TRUE, message |-> Rethrown(r)] :
           r \in FailReasons}

\* "finally": if (abortControllerRef.current === controller) ... = null
Release(i) == IF ops.ref = i THEN 0 ELSE ops.ref

\* The rest of handleFindInspiration (part_000 lines 391-405) for operation i.
FindSettles(i, out) ==
  /\ i \in 1..Len(ops.list)
  /\ ops.list[i].kind = "find"
  /\ ops.list[i].running
  /\ LET op == ops.list[i]
         applies == out.kind = "returned" /\ ~op.aborted
     IN  /\ ops' = [ops EXCEPT !.ref = Release(i),
                               !.list[i].running = FALSE,
                               !.list[i].applied = applies]
         /\ isLoading' = FALSE
         /\ IF out.kind = "threw"
            THEN /\ error' = HandleErrorMessage(out.message)
                 /\ appStep' = SensibleStep(op.closure.detectedAttributes,
                                            op.closure.inspirationImages,
                                            op.closure.uploadedImage)
                 /\ UNCHANGED inspirationImages
            ELSE IF op.aborted
            THEN UNCHANGED <<error, appStep, inspirationImages>>
            ELSE IF out.empty
            THEN /\ error' = NoInspirationMessage
                 /\ appStep' = "choosePath"
                 /\ UNCHANGED inspirationImages
            ELSE /\ inspirationImages' = "list"
                 /\ appStep' = "showingInspiration"
                 /\ UNCHANGED error
  /\ UNCHANGED <<uploadedImage, detectedAttributes, abortRef, aborted,
                 closure, pipeVars, reqs, probe, trial, hist>>

OllamaMessage == "Failed to fetch Ollama models: 500"

\* What fetchOllamaModels settles with: the model names, the AbortError of
\* an aborted fetch, or another error.
ModelsOutcomes(op) ==
  {"models", "error"} \cup (IF op.aborted THEN {"abort"} ELSE {})

\* The rest of handleFetchOllamaModels (part_000 lines 923-937).
ModelsSettle(i, out) ==
  /\ i \in 1..Len(ops.list)
  /\ ops.list[i].kind = "models"
  /\ ops.list[i].running
  /\ out \in ModelsOutcomes(ops.list[i])
  /\ LET op == ops.list[i]
         applies == out = "models" /\ ~op.aborted
     IN  /\ ops' = [ops EXCEPT !.ref = Release(i),
                               !.models = @ \/ applies,
                               !.list[i].running = FALSE,
                               !.list[i].applied = applies]
         /\ IF out = "error"
            THEN /\ error' = OllamaMessage
                 /\ isLoading' = FALSE
                 /\ appStep' = SensibleStep(op.closure.detectedAttributes,
                                            op.closure.inspirationImages,
                                            op.closure.uploadedImage)
            ELSE UNCHANGED <<error, isLoading, appStep>>
  /\ UNCHANGED <<uploadedImage, detectedAttributes, inspirationImages,
                 abortRef, aborted, closure, pipeVars, reqs, probe, trial,
                 hist>>

NextOps ==
  \/ StartFindInspiration
  \/ StartFetchOllamaModels
  \/ StopOperations
  \/ \E i \in 1..MaxOps, out \in FindOutcomes : FindSettles(i, out)
  \/ \E i \in 1..MaxOps, out \in {"models", "error", "abort"} :
        ModelsSettle(i, out)

SpecOps == InitOps /\ [][NextOps]_vars

(***************************************************************************)
(* HistoryService.  hist.items is historyState.items (front first), an     *)
(* item is [id, fileName, filePath, dataUrl, hash] with "" for an empty     *)
(* string; hist.selectedItemId is 0 for null.  hist.inflight holds the      *)
(* background requests that have not settled, each with the values its     *)
(* closure captured.  The awaits that precede the list update in each      *)
(* method (FileReader, digest) read no state, so a method is one step from *)
(* its list update on.  The initial load from the server is taken as       *)
(* having found nothing.                                                   *)
(***************************************************************************)
MaxSaves == 3

FileNames == {"a.png", "b.png"}
DataUrls == {"data:image/png;base64,AAAA", "data:image/png;base64,BBBB",
             "blob:3"}
Files == [name : FileNames, dataUrl : DataUrls]

\* SHA-1 of the decoded base64 data; '' when the URL is not a base64 data URL.
computeHashFromDataUrl(dataUrl) ==
  CASE dataUrl = "data:image/png;base64,AAAA" -> "sha1-A"
    [] dataUrl = "data:image/png;base64,BBBB" -> "sha1-B"
    [] OTHER -> ""

\* makeId(): a fresh id; the ids are numbered in the order they are made.
makeId == hist.nextId

\* The name the inputs server stores a file under: unique for each request.
StoredName(id) == "stored-" \o ToString(id)

\* The index of the first item that matches by hash, file name or data URL;
\* 0 for -1.
findExistingIndex(items, fileName, dataUrl, hash) ==
  IF fileName = "" /\ dataUrl = "" /\ hash = "" THEN 0
  ELSE LET hit(i) ==
             \/ (hash # "" /\ i.hash # "" /\ i.hash = hash)
             \/ (fileName # "" /\ i.fileName # "" /\ i.fileName = fileName)
             \/ (dataUrl # "" /\ i.dataUrl # "" /\ i.dataUrl = dataUrl)
           hits == {k \in 1..Len(items) : hit(items[k])}
       IN  IF hits = {} THEN 0
           ELSE CHOOSE k \in hits : \A l \in hits : k <= l

\* items.splice(k, 1)
SpliceOut(items, k) ==
  [i \in 1..Len(items) - 1 |-> IF i < k THEN items[i] ELSE items[i + 1]]

\* findIndex(i => i.id === id); 0 for -1.
IndexOfId(items, id) ==
  IF \E k \in 1..Len(items) : items[k].id = id
  THEN CHOOSE k \in 1..Len(items) : items[k].id = id
  ELSE 0

\* Remove the first matching item, if any, and put the new item in front.
Unshifted(items, item) ==
  LET existing == findExistingIndex(items, item.fileName, item.dataUrl,
                                    item.hash)
  IN  <<item>> \o (IF existing > 0 THEN SpliceOut(items, existing) ELSE items)

\* const key = hash || fileName || dataUrl
SaveKey(item) ==
  IF item.hash # "" THEN item.hash
  ELSE IF item.fileName # "" THEN item.fileName
  ELSE item.dataUrl

\* The list update and the start of the background save, common to
\* saveImageBackground (lines 207-230) and saveDataUrlBackground
\* (lines 285-308).
\* A background save that starts only when none is pending for the key.
SkipSavePendingOnly(key) == key \in hist.pendingSaves

\* if (this.pendingSaves.has(key) || this.succeededSaves.has(key)) return;
SkipSave(key) == key \in hist.pendingSaves \/ key \in hist.succeededSaves

AddAndSave(item) ==
  LET key == SaveKey(item)
      skip == SkipSave(key)
  IN  hist' = [hist EXCEPT
                 !.items = Unshifted(@, item),
                 !.nextId = @ + 1,
                 !.pendingSaves = IF skip THEN @ ELSE @ \cup {key},
                 !.inflight =
                    IF skip THEN @
                    ELSE @ \cup {[id |-> item.id, key |-> key,
                                  fileName |-> item.fileName,
                                  dataUrl |-> item.dataUrl,
                                  hash |-> item.hash]}]

saveImageBackground(file) ==
  /\ hist.nextId <= MaxSaves
  /\ AddAndSave([id |-> makeId, fileName |-> file.name, filePath |-> "",
                 dataUrl |-> file.dataUrl,
                 hash |-> computeHashFromDataUrl(file.dataUrl)])
  /\ UNCHANGED <<appVars, pipeVars, reqs, probe, trial, ops>>

\* filename is "" when the caller gives none.
saveDataUrlBackground(dataUrl, filename) ==
  /\ hist.nextId <= MaxSaves
  /\ AddAndSave([id |-> makeId,
                 fileName |-> IF filename # "" THEN filename
                              ELSE "image-" \o ToString(makeId) \o ".png",
                 filePath |-> "",
                 dataUrl |-> dataUrl,
                 hash |-> computeHashFromDataUrl(dataUrl)])
  /\ UNCHANGED <<appVars, pipeVars, reqs, probe, trial, ops>>

\* The success branch of a background save (lines 236-258, 314-333) on the
\* list: the first matching item, or else the item of this save, gets the
\* stored name; a matching item also moves to the front.
Stored(items, req) ==
  LET name == StoredName(req.id)
      existing == findExistingIndex(items, name, req.dataUrl, req.hash)
      idx == IndexOfId(items, req.id)
      renamed(it) == [it EXCEPT !.fileName = name, !.filePath = name]
  IN  IF existing > 0
      THEN <<renamed(items[existing])>> \o SpliceOut(items, existing)
      ELSE IF idx > 0
      THEN [items EXCEPT ![idx] = renamed(items[idx])]
      ELSE items

\* The request of a background save settles: res.ok, another status, or a
\* rejection (also of res.json()).
BackgroundSettles(req, out) ==
  /\ req \in hist.inflight
  /\ hist' =
       IF out = "ok"
       THEN [hist EXCEPT
               !.items = Stored(@, req),
               !.succeededSaves = @ \cup {req.key},
               !.pendingSaves = @ \ {req.key},
               !.failedSaves = @ \ {req.key},
               !.inflight = @ \ {req}]
       ELSE [hist EXCEPT
               !.pendingSaves = @ \ {req.key},
               !.failedSaves = @ \cup {req.key},
               !.inflight = @ \ {req}]
  /\ UNCHANGED <<appVars, pipeVars, reqs, probe, trial, ops>>

\* saveImage (lines 123-194) from the moment its POST has settled: stored
\* by the server, refused (null is returned), or failed and kept locally.
saveImage(file, out) ==
  /\ hist.nextId <= MaxSaves
  /\ IF out = "notok" THEN UNCHANGED hist
     ELSE LET name == IF out = "ok" THEN StoredName(makeId) ELSE file.name
              item == [id |-> makeId, fileName |-> name,
                       filePath |-> IF out = "ok" THEN name ELSE "",
                       dataUrl |-> file.dataUrl,
                       hash |-> computeHashFromDataUrl(file.dataUrl)]
          IN  hist' = [hist EXCEPT !.items = Unshifted(@, item),
                                   !.nextId = @ + 1]
  /\ UNCHANGED <<appVars, pipeVars, reqs, probe, trial, ops>>

\* The caller passes null (0) or the id of an item the panel shows.
setSelectedItem(itemId) ==
  /\ itemId = 0 \/ \E k \in 1..Len(hist.items) : hist.items[k].id = itemId
  /\ hist' = [hist EXCEPT !.selectedItemId = itemId]
  /\ UNCHANGED <<appVars, pipeVars, reqs, probe, trial, ops>>

deleteItem(itemId) ==
  /\ itemId \in 1..hist.nextId - 1
  /\ LET idx == IndexOfId(hist.items, itemId)
     IN  IF idx = 0 THEN UNCHANGED hist
         ELSE hist' = [hist EXCEPT
                         !.items = SpliceOut(@, idx),
                         !.selectedItemId = IF @ = itemId THEN 0 ELSE @]
  /\ UNCHANGED <<appVars, pipeVars, reqs, probe, trial, ops>>

clearAll ==
  /\ hist' = [hist EXCEPT !.items = <<>>, !.selectedItemId = 0]
  /\ UNCHANGED <<appVars, pipeVars, reqs, probe, trial, ops>>

NextHist ==
  \/ \E file \in Files : saveImageBackground(file)
  \/ \E dataUrl \in DataUrls, filename \in FileNames \cup {""} :
        saveDataUrlBackground(dataUrl, filename)
  \/ \E req \in hist.inflight, out \in {"ok", "notok", "throws"} :
        BackgroundSettles(req, out)
  \/ \E file \in Files, out \in {"ok", "notok", "throws"} : saveImage(file, out)
  \/ \E itemId \in 0..MaxSaves : setSelectedItem(itemId)
  \/ \E itemId \in 1..MaxSaves : deleteItem(itemId)
  \/ clearAll

SpecHist == InitOps /\ [][NextHist]_vars

\* Some background save that is in flight settles.
SettleSome ==
  \E req \in hist.inflight, out \in {"ok", "notok", "throws"} :
     BackgroundSettles(req, out)

\* Every request that was sent is answered or fails: the promise of fetch
\* settles, and the continuation after the await then runs.
SpecHistFair == SpecHist /\ WF_vars(SettleSome)

(***************************************************************************)
(* Properties.                                                             *)
(***************************************************************************)
Settled == pc = "done"
ReturnedList == Settled /\ outcome.kind = "returned"

\* C1: whatever the collaborators answer, a list returned by
\* findWebInspiration has at most count entries (count >= 0).
C1_ResultWithinCount ==
  ReturnedList => Len(outcome.list) <= count

\* C1 witness: an invocation with two candidates validated and accepted
\* returned a list cut to count = 1.
C1_Witness ==
  /\ ReturnedList
  /\ outcome.at = "validate"
  /\ checks = 2
  /\ count = 1
  /\ Len(outcome.list) = 1
  /\ selected[1]._score >= KeepScore

\* C2: no two entries of a returned list have the same uri.
C2_NoDuplicateUris ==
  ReturnedList =>
    \A i, j \in 1..Len(outcome.list) :
       i # j => outcome.list[i].uri # outcome.list[j].uri

\* C3: no entry of a returned list has a validated content type that says
\* PDF.
C3_NoPdfInResult ==
  (ReturnedList /\ outcome.at = "validate") =>
    \A i \in 1..Len(selected) : ~IsPdfType(selected[i]._contentType)

\* C4: when the stock-photo stage ran and its answer had at least one photo
\* with both URLs, the invocation returns from that stage: no grounded
\* search, no free-text request, no harvesting and no validation is started.
C4_StockEndsCascade ==
  \A i \in 1..Len(yields) :
     (yields[i].stage = "stock" /\ yields[i].items >= 1) =>
        /\ stages = <<"stock">>
        /\ ReturnedList
        /\ outcome.at = "stock"
        /\ checks = 0

\* C4 witness: the stock stage found a single valid photo while two were
\* asked for, and the invocation returned it.
C4_Witness ==
  /\ ReturnedList
  /\ count = 2
  /\ yields = <<Yield("stock", TRUE, TRUE, 1)>>
  /\ Len(outcome.list) = 1

\* C5: when the user stopped the search while findWebInspiration was in
\* flight, the invocation ends without an error message and without a new
\* inspiration list, whatever the pipeline returns or throws afterwards.
C5_CancelIsSilent ==
  (Settled /\ aborted) =>
     /\ error = "null"
     /\ (inspirationImages = "list") = closure.inspirationImages

\* C6: once a retrieval stage has been started (the synthesis succeeded),
\* findWebInspiration returns a list and never throws.
C6_StageErrorsRecovered ==
  (Settled /\ stages # <<>>) => outcome.kind = "returned"

\* C7: when the description call fails, no retrieval stage and no liveness
\* check has run, findWebInspiration throws, and the caller shows the error.
C7_SynthFailureSurfaces ==
  (Settled /\ outcome.at = "synth") =>
     /\ outcome.kind = "threw"
     /\ stages = <<>>
     /\ yields = <<>>
     /\ checks = 0
     /\ error # "null"
     /\ error \in {outcome.message, QuotaMessage}
     /\ ~isLoading

\* C7 witness: the description call failed with a quota error after the user
\* had not stopped anything, and the quota message is shown.
C7_Witness ==
  /\ Settled
  /\ outcome.at = "synth"
  /\ outcome.kind = "threw"
  /\ ~aborted
  /\ error = QuotaMessage

Rank(stage) ==
  CASE stage = "stock" -> 1
    [] stage = "grounded" -> 2
    [] stage = "fallback" -> 3
    [] stage = "harvest" -> 4

\* The stages run in the fixed order, one at a time: a stage is started only
\* when every stage before it has finished.
Sequential ==
  /\ \A i, j \in 1..Len(stages) : i < j => Rank(stages[i]) < Rank(stages[j])
  /\ Len(yields) <= Len(stages)
  /\ Len(yields) >= Len(stages) - 1
  /\ \A i \in 1..Len(yields) : yields[i].stage = stages[i]
  /\ (pc \in {"stock", "grounded", "fallback"}) =>
        (Len(yields) = Len(stages) - 1 /\ stages[Len(stages)] = pc)

\* C8 as stated: sequential, and a stage that yields at least min(1, count)
\* candidates ends the cascade, while a stage that yields fewer (and whose
\* error did not leave the function) is followed by the next one.
C8_EnoughEndsCascade ==
  /\ Sequential
  /\ \A i \in 1..Len(yields) :
       IF yields[i].items >= Min(1, count)
       THEN Len(stages) = i
       ELSE (yields[i].ok /\ yields[i].stage # "harvest") => Len(stages) > i

\* C8 as amended: sequential; the grounded search follows the stock stage
\* exactly when that stage had no valid photo, the free-text request follows
\* the grounded search exactly when its answer arrived without a citation
\* chunk, and harvesting follows the free-text stage exactly when its parsed
\* array was not empty and gave fewer than count candidates.
C8_CascadeByStage ==
  /\ Sequential
  /\ \A i \in 1..Len(yields) :
       LET y == yields[i]
           more == Len(stages) > i
       IN  CASE y.stage = "stock" ->
                  /\ more <=> (y.items = 0)
                  /\ more => stages[i + 1] = "grounded"
             [] y.stage = "grounded" ->
                  /\ more <=> (y.ok /\ ~y.hits)
                  /\ more => stages[i + 1] = "fallback"
             [] y.stage = "fallback" ->
                  /\ more <=> (y.hits /\ y.items < count)
                  /\ more => stages[i + 1] = "harvest"
             [] y.stage = "harvest" -> ~more

\* C8 witness: all four stages ran, in order.
C8_Witness ==
  /\ Settled
  /\ stages = <<"stock", "grounded", "fallback", "harvest">>
  /\ Len(yields) = 4
  /\ yields[4].items >= 1

C10_DeadWordsShortCircuit ==
  (probe.ran /\ \E i \in 1..Len(probe.url) :
                   LowerTok(probe.url[i]) \in {"404", "notfound", "error"}) =>
     /\ ~probe.result.alive
     /\ probe.result.calls = <<>>

\* C10 witness: a URL with ERROR in it, which the proxy would have reported
\* alive as an image, was declared dead.
C10_Witness ==
  /\ probe.ran
  /\ \E i \in 1..Len(probe.url) : probe.url[i] = "ERROR"
  /\ ProxyUsable(probe.proxy)
  /\ probe.proxy.resp.body.alive
  /\ ~probe.result.alive
  /\ probe.result.calls = <<>>

\* What checkUrlAlive did for a URL it does not dismiss at sight: the proxy
\* was asked first; its usable answer (200 with an alive key) is the result
\* and nothing else is asked; otherwise the target is asked with HEAD and
\* its response is the result.
ProbedInOrder ==
  LET usable == /\ probe.proxy.kind = "answer"
                /\ probe.proxy.resp.statusCode = 200
                /\ "alive" \in DOMAIN probe.proxy.resp.body
  IN  /\ Len(probe.result.calls) >= 1
      /\ probe.result.calls[1] = [to |-> "proxy", url |-> probe.url]
      /\ usable =>
           /\ Len(probe.result.calls) = 1
           /\ probe.result.alive = probe.proxy.resp.body.alive
           /\ \/ probe.result.contentType = NoCT
              \/ probe.result.contentType = probe.proxy.resp.body.contentType
      /\ ~usable =>
           /\ Len(probe.result.calls) = 2
           /\ probe.result.calls[2] = [to |-> "direct", url |-> probe.url]
           /\ probe.direct.kind = "response" =>
                /\ probe.result.alive = probe.direct.ok
                /\ probe.result.contentType = probe.direct.ct

Dismissed ==
  \/ probe.url = EmptyStr
  \/ \E i \in 1..Len(probe.url) :
        LowerTok(probe.url[i]) \in {"404", "notfound", "error", "page-not-found"}

BothFailed ==
  /\ ~(/\ probe.proxy.kind = "answer"
       /\ probe.proxy.resp.statusCode = 200
       /\ "alive" \in DOMAIN probe.proxy.resp.body)
  /\ probe.direct.kind = "throws"

\* C17 as stated: proxy first, the target only without a usable proxy
\* answer, and when both failed alive iff the URL ends in an image extension.
C17_CheckOrderUrlEnd ==
  (probe.ran /\ ~Dismissed) =>
     /\ ProbedInOrder
     /\ BothFailed =>
          (probe.result.alive <=>
             LowerTok(probe.url[Len(probe.url)])
                \in {".jpg", ".jpeg", ".png", ".webp", ".gif"})

\* C17 as amended: proxy first, the target only without a usable proxy
\* answer, and when both failed alive iff an image extension stands at the
\* end of the URL or directly before a question mark.
C17_CheckOrderExtension ==
  (probe.ran /\ ~Dismissed) =>
     /\ ProbedInOrder
     /\ BothFailed =>
          /\ probe.result.contentType = NoCT
          /\ probe.result.alive <=>
               \E i \in 1..Len(probe.url) :
                  /\ LowerTok(probe.url[i])
                        \in {".jpg", ".jpeg", ".png", ".webp", ".gif"}
                  /\ (i = Len(probe.url) \/ probe.url[i + 1] = "?")

\* C17 witness: the proxy was unreachable, the HEAD request to the target
\* threw, and the URL with .png before its query string was taken for alive.
C17_Witness ==
  /\ probe.ran
  /\ probe.url = iQuery
  /\ probe.proxy.kind = "unreachable"
  /\ probe.direct.kind = "throws"
  /\ Len(probe.result.calls) = 2
  /\ probe.result.alive

\* The tags of the trial a candidate's text contains as a whole, and the
\* words of tags it contains.
WholeHits(c) ==
  {t \in 1..Len(trial.tags) :
     trial.tags[t] # EmptyStr /\ Includes(Hay(c), Lower(trial.tags[t]))}

WordHits(c) ==
  {<<t, k>> \in (1..Len(trial.tags)) \X (1..6) :
     /\ trial.tags[t] # EmptyStr
     /\ k <= Len(SplitSpace(Lower(trial.tags[t])))
     /\ SplitSpace(Lower(trial.tags[t]))[k] # EmptyStr
     /\ Includes(Hay(c), SplitSpace(Lower(trial.tags[t]))[k])}

\* Two candidates of the trial that differ in nothing the score looks at
\* but their title and match reason.
SameOtherwise(i, j) ==
  /\ trial.cands[i].uri = trial.cands[j].uri
  /\ trial.cands[i].previewUrl = trial.cands[j].previewUrl
  /\ trial.lvs[i].imageUrl = trial.lvs[j].imageUrl
  /\ trial.lvs[i].alive = trial.lvs[j].alive
  /\ trial.lvs[i].contentType = trial.lvs[j].contentType

\* C11 as stated: all else equal, a candidate matching a superset of another
\* candidate's tags scores at least as high.
C11_MonotoneInTags ==
  trial.ran =>
    \A i, j \in 1..Len(trial.vs) :
       (SameOtherwise(i, j)
          /\ WholeHits(trial.cands[j]) \subseteq WholeHits(trial.cands[i]))
       => trial.vs[i]._score >= trial.vs[j]._score

\* C11 as amended: all else equal, a candidate whose text contains every tag
\* and every word of a tag that another candidate's text contains scores at
\* least as high.
C11_MonotoneInTagsAndWords ==
  trial.ran =>
    \A i, j \in 1..Len(trial.vs) :
       (SameOtherwise(i, j)
          /\ WholeHits(trial.cands[j]) \subseteq WholeHits(trial.cands[i])
          /\ WordHits(trial.cands[j]) \subseteq WordHits(trial.cands[i]))
       => trial.vs[i]._score >= trial.vs[j]._score

\* C11 witness: on the fallback path, two candidates alike but for the
\* title, one matching a tag the other does not, and scoring higher.
C11_Witness ==
  /\ trial.ran
  /\ trial.path = "fallback"
  /\ Len(trial.vs) = 2
  /\ SameOtherwise(1, 2)
  /\ WholeHits(trial.cands[2]) = {}
  /\ WordHits(trial.cands[2]) = {}
  /\ WholeHits(trial.cands[1]) # {}
  /\ trial.vs[1]._score > trial.vs[2]._score

\* C12: on the grounded path every returned candidate was verified alive
\* with an image content type; a chunk verified dead or as a PDF is not
\* returned.
C12_GroundedOnlyLiveImages ==
  (ReturnedList /\ outcome.at = "validate" /\ path = "grounded") =>
     \A i \in 1..Len(selected) :
        /\ selected[i]._alive
        /\ selected[i]._contentType # NoCT
        /\ LowerTok(selected[i]._contentType[1]) = "image/"

\* C13: when no stage yields a candidate, or no candidate survives the
\* filter, findWebInspiration returns the empty list, and the handler (not
\* stopped meanwhile) shows the 'could not find' message, goes back to
\* choosePath and stores no list.
C13_EmptyResultShown ==
  /\ (Settled /\ yields # <<>>
        /\ \A i \in 1..Len(yields) : yields[i].ok /\ yields[i].items = 0)
       => (outcome.kind = "returned" /\ outcome.list = <<>>)
  /\ (ReturnedList /\ outcome.list = <<>> /\ ~aborted) =>
       /\ error = "Could not find any inspiration images."
       /\ appStep = "choosePath"
       /\ (inspirationImages = "list") = closure.inspirationImages
       /\ ~isLoading

\* C13 witness: candidates were validated, none survived the filter, and the
\* message is shown.
C13_Witness ==
  /\ ReturnedList
  /\ outcome.at = "validate"
  /\ checks >= 1
  /\ outcome.list = <<>>
  /\ ~aborted
  /\ error = "Could not find any inspiration images."
  /\ appStep = "choosePath"
  /\ inspirationImages = "null"

IsKept(i) == \E k \in 1..Len(trial.chosen) : trial.chosen[k] = trial.vs[i]

IsImage(ct) == ct # NoCT /\ LowerTok(ct[1]) = "image/"

\* C14: a validated candidate is kept exactly when it is alive with an image
\* type, or its score is at least 2, or its hostname is a preferred one (as
\* for the host bonus) and it is alive.
C14_KeptIff ==
  (trial.ran /\ Len(trial.vs) <= trial.count) =>
     \A i \in 1..Len(trial.vs) :
        IsKept(i) <=>
          \/ (trial.vs[i]._alive /\ IsImage(trial.vs[i]._contentType))
          \/ trial.vs[i]._score >= 20
          \/ (HostPreferred(trial.vs[i].uri) /\ trial.vs[i]._alive)

\* C14 witness: of two candidates the first, whose uri names a preferred
\* host only in its query string, is alive without an image type and kept;
\* the second is dropped.
C14_Witness ==
  /\ trial.ran
  /\ Len(trial.vs) = 2
  /\ trial.vs[1].uri = uRef
  /\ trial.vs[1]._alive
  /\ ~IsImage(trial.vs[1]._contentType)
  /\ IsKept(1)
  /\ ~IsKept(2)

HasExt(u, exts) ==
  \E i \in 1..Len(u) :
     LowerTok(u[i]) \in exts /\ (i = Len(u) \/ u[i + 1] = "?")

Points(b, n) == IF b THEN n ELSE 0

\* The word hits that belong to a matched tag of several words.
MatchedTagWords(c) ==
  {h \in WordHits(c) :
     /\ h[1] \in WholeHits(c)
     /\ Len(SplitSpace(trial.tags[h[1]])) > 1}

\* The points of the liveness part: extension of the final previewUrl, image
\* content type, alive.
LivePoints(i) ==
  Points(HasExt(trial.vs[i].previewUrl, {".jpg", ".jpeg", ".png", ".webp", ".gif"}), 12)
  + Points(IsImage(trial.lvs[i].contentType), 15)
  + Points(trial.lvs[i].alive, 20)

\* C15 as stated: the final score is the sum of +2 per matched tag, +0.5 or
\* +0.6 per word of a matched multi-word tag, +1.2 for the extension, +1.5
\* for an image type, +1.5 for a preferred hostname, +2 for alive.
C15_ScoreIsDocumentedSum ==
  trial.ran =>
    \A i \in 1..Len(trial.vs) :
       trial.vs[i]._score =
           20 * Cardinality(WholeHits(trial.cands[i]))
         + (IF trial.path = "grounded" THEN 5 ELSE 6)
             * Cardinality(MatchedTagWords(trial.cands[i]))
         + Points(HostPreferred(trial.cands[i].uri), 15)
         + LivePoints(i)

\* C15 as amended: the word points go to every word of every tag found in
\* the text; on the fallback path a candidate of the parsed array also has
\* +1 for a .jpg/.jpeg/.png/.webp extension of its original previewUrl, and
\* a harvested candidate has the liveness points alone.
C15_ScoreIsCodeSum ==
  trial.ran =>
    \A i \in 1..Len(trial.vs) :
       trial.vs[i]._score =
         IF trial.path = "grounded"
         THEN   20 * Cardinality(WholeHits(trial.cands[i]))
              + 5 * Cardinality(WordHits(trial.cands[i]))
              + Points(HostPreferred(trial.cands[i].uri), 15)
              + LivePoints(i)
         ELSE IF i <= trial.fromArray
         THEN   20 * Cardinality(WholeHits(trial.cands[i]))
              + 6 * Cardinality(WordHits(trial.cands[i]))
              + Points(HasExt(trial.cands[i].previewUrl,
                              {".jpg", ".jpeg", ".png", ".webp"}), 10)
              + Points(HostPreferred(trial.cands[i].uri), 15)
              + LivePoints(i)
         ELSE LivePoints(i)

\* C15 witness: on the fallback path a candidate of the array with a matched
\* tag of two words, the +1 and the +1.2 for its extension, a preferred
\* host, an image type and alive, next to a harvested candidate on a
\* preferred host with the liveness points alone.
C15_Witness ==
  /\ trial.ran
  /\ trial.path = "fallback"
  /\ trial.fromArray = 1
  /\ Len(trial.vs) = 2
  /\ trial.vs[1]._score = 20 + 6 + 6 + 10 + 15 + 12 + 15 + 20
  /\ trial.vs[2].title = trial.vs[2].uri
  /\ HostPreferred(trial.vs[2].uri)
  /\ trial.vs[2]._score = 15 + 20

\* The chosen entries k < l stand in the order of the list `order`: they
\* come from candidates of which the first stands no later in that list.
InOrderOf(order, k, l) ==
  \E i, j \in 1..Len(trial.vs) :
     /\ trial.vs[i] = trial.chosen[k]
     /\ trial.vs[j] = trial.chosen[l]
     /\ \E r, q \in 1..Len(order) :
          /\ order[r] = trial.cands[i]
          /\ order[q] = trial.cands[j]
          /\ (r < q \/ (r = q /\ i <= j))

\* C16 as stated: the result is in descending order of the final score and
\* entries of equal score stand in the order the retrieval stage produced
\* them.
C16_TiesInRetrievalOrder ==
  trial.ran =>
    \A k, l \in 1..Len(trial.chosen) :
       k < l =>
         /\ trial.chosen[k]._score >= trial.chosen[l]._score
         /\ trial.chosen[k]._score = trial.chosen[l]._score
              => InOrderOf(trial.raw, k, l)

\* C16 as amended: descending order of the final score, and entries of equal
\* score in the order the validation received them, which on the fallback
\* path is the order after the sort by the score of tags, extension and
\* host, the harvested URLs last.
C16_TiesInValidationOrder ==
  trial.ran =>
    \A k, l \in 1..Len(trial.chosen) :
       k < l =>
         /\ trial.chosen[k]._score >= trial.chosen[l]._score
         /\ trial.chosen[k]._score = trial.chosen[l]._score
              => InOrderOf(trial.cands, k, l)

\* C16 witness: on the fallback path two candidates of the array end with
\* the same final score; the one the first sort had moved to the front
\* stays in front, against the order of the array.
C16_Witness ==
  /\ trial.ran
  /\ trial.path = "fallback"
  /\ trial.fromArray = 2
  /\ Len(trial.chosen) = 2
  /\ trial.chosen[1]._score = trial.chosen[2]._score
  /\ trial.chosen[1] # trial.chosen[2]
  /\ trial.raw[1] = trial.cands[2]
  /\ trial.raw[2] = trial.cands[1]
  /\ trial.raw[1] # trial.raw[2]
  /\ trial.chosen[1] = trial.vs[1]

\* C18: a candidate whose previewUrl was found dead and whose page was found
\* alive has, with a snapshot key, the snapshot URL of its page as
\* previewUrl, checked once; and every candidate that ends alive carries a
\* previewUrl that a liveness check found alive.
C18_AlivePreviewFoundAlive ==
  trial.ran =>
    \A i \in 1..Len(trial.vs) :
       LET lv == trial.lvs[i]
           snap == <<"https://", "api.apiflash.com", "/", "v1", "/",
                     "urltoimage", "?", "access_key=KEY", "&url=">>
                   \o encodeURIComponent(trial.cands[i].uri)
                   \o <<"&format=jpeg", "&quality=80", "&thumbnail_width=800">>
       IN  /\ (trial.apiflash /\ Len(lv.found) >= 2 /\ ~lv.found[1] /\ lv.found[2]
                 /\ trial.cands[i].previewUrl # snap) =>
                /\ trial.vs[i].previewUrl = snap
                /\ Cardinality({k \in 1..Len(lv.checked) : lv.checked[k] = snap}) = 1
           /\ trial.vs[i]._alive =>
                \E k \in 1..Len(lv.checked) :
                   lv.checked[k] = trial.vs[i].previewUrl /\ lv.found[k]

\* C19: the validation tasks of all candidates run side by side, and while
\* the fan-out runs every task that has not ended yet can still end (by an
\* answer, an error or its timer) whatever the other tasks do, so that the
\* fan-out completes and the selection follows.
C19_EveryCheckEnds ==
  pc = "validate" =>
    \A i \in 1..Len(cands) : ~validated[i].done => ~validated[i].stalled

\* An entry that carries the marks of the validation: the liveness verdict
\* and the score.
HasVerdict(e) == "_alive" \in DOMAIN e /\ "_score" \in DOMAIN e

\* C20: every candidate of a returned list has been through the liveness
\* check and the scorer before the selection, whichever stage produced it:
\* the list was returned from the validation, each of its candidates was
\* checked and carries its verdict and score.
C20_AllValidatedBeforeSelection ==
  (ReturnedList /\ Len(outcome.list) > 0) =>
     /\ outcome.at = "validate"
     /\ checks >= Len(outcome.list)
     /\ Len(selected) = Len(outcome.list)
     /\ \A i \in 1..Len(selected) : HasVerdict(selected[i])

\* C20, amended: a non-empty list returned from the grounded, the fallback
\* or the harvest stage comes out of the validation: every candidate of the
\* stage was checked, and the returned ones carry their verdict and score,
\* passed the filter and stand in descending score.  A non-empty list
\* returned from the stock-photo stage is the provider's answer cut to
\* count: nothing was checked and nothing was scored.
C20_ValidatedUnlessStock ==
  [][(pc # "done" /\ pc' = "done" /\ outcome'.kind = "returned"
        /\ Len(outcome'.list) > 0) =>
       IF pc = "stock"
       THEN /\ checks' = 0
            /\ \A i \in 1..Len(selected') : ~HasVerdict(selected'[i])
       ELSE /\ pc = "validate"
            /\ path \in {"grounded", "fallback"}
            /\ checks' = Len(cands)
            /\ Len(selected') = Len(outcome'.list)
            /\ Len(selected') <= Len(cands)
            /\ \A i \in 1..Len(selected') :
                  /\ HasVerdict(selected'[i])
                  /\ Accepted(selected'[i])
                  /\ \E k \in 1..Len(cands) : selected'[i].uri = cands[k].uri
            /\ \A i \in 1..Len(selected') - 1 :
                  selected'[i]._score >= selected'[i + 1]._score]_vars

\* C20 witness: a list of two candidates returned from the validation of the
\* fallback stage, both checked.
C20_Witness ==
  /\ ReturnedList
  /\ outcome.at = "validate"
  /\ path = "fallback"
  /\ Len(outcome.list) = 2
  /\ checks = 2
  /\ \A i \in 1..2 : HasVerdict(selected[i])

\* What the task of candidate i can produce: a function of that candidate and
\* of the answers to its own requests.
TaskResults(i) ==
  {Validated(cands[i], BaseScore(cands[i]), lv) :
      lv \in Liveness(cands[i], apiflashKey)}

TextUrls(text) ==
  ({text.items[i].url : i \in 1..Len(text.items)}
   \cup {text.items[i].uri : i \in 1..Len(text.items)}
   \cup {text.items[i].imageUrl : i \in 1..Len(text.items)}
   \cup {text.notes[i].url : i \in 1..Len(text.notes)}) \ {EmptyStr}

\* A candidate appended by the harvest: its title is its URL.
IsHarvested(c) == c.title = c.uri /\ c.previewUrl = c.uri

\* C22: when the stages have produced fewer than count candidates, the bare
\* URLs of the answer text that are not yet the uri of a candidate are
\* appended until count candidates are present: an appended candidate is a
\* URL of the text and no other candidate has its uri, a list with an
\* appended candidate is no longer than count, and a list shorter than
\* count has left no URL of the text aside.
C22_HarvestFillsToCount ==
  /\ pc = "validate" =>
       /\ \A k \in 1..Len(cands) :
             IsHarvested(cands[k]) =>
               /\ cands[k].uri \in TextUrls(trial.text)
               /\ \A j \in 1..Len(cands) : j # k => cands[j].uri # cands[k].uri
               /\ Len(cands) <= count
       /\ Len(cands) < count =>
             \A u \in TextUrls(trial.text) :
                \E j \in 1..Len(cands) : cands[j].uri = u
  /\ (pc = "done" /\ count > 0) => TextUrls(trial.text) = {}

\* C23: every candidate that enters the validation and the scoring has a
\* non-empty uri, on every path; so has every candidate with a validation
\* result and every entry of a returned list, the stock photos included.
C23_CandidatesHaveUri ==
  /\ pc = "validate" =>
       /\ \A i \in 1..Len(cands) : cands[i].uri # EmptyStr
       /\ \A i \in 1..Len(validated) :
             validated[i].done => validated[i].v.uri # EmptyStr
  /\ ReturnedList =>
       /\ \A i \in 1..Len(outcome.list) : outcome.list[i].uri # EmptyStr
       /\ \A i \in 1..Len(selected) : selected[i].uri # EmptyStr

\* C23 witness: the fallback answer was an array with objects in it, all of
\* them without a page URL and dropped, and the validation runs on what the
\* harvest appended.
C23_Witness ==
  /\ pc = "validate"
  /\ path = "fallback"
  /\ Len(cands) > 0
  /\ \E k \in 1..Len(yields) :
        /\ yields[k].stage = "fallback"
        /\ yields[k].hits
        /\ yields[k].items = 0

\* C24: once the cancellation has been signalled, the invocation in flight
\* starts no further retrieval stage and no further liveness check: its
\* next step is its return.
C24_CancelStopsPipeline ==
  [][(aborted /\ pc \notin {"idle", "done"}) =>
        /\ stages' = stages
        /\ checks' = checks
        /\ pc' \in {pc, "done"}]_vars

\* JSON.parse of the answer (of its first {...} or [...] substring) throws.
Unparsable(text) == text.body \in {"broken", "none"}

\* C25: an answer that is not parsable JSON is recovered by taking the URLs
\* of the text as candidates with the titles "Result i", and these go to the
\* validation; the stage ends without candidates only when the text has
\* neither a parsable array nor a URL; and the answer never makes
\* findWebInspiration throw.
C25_UnparsableRecovered ==
  /\ (pc = "validate" /\ Unparsable(trial.text)) =>
       \A i \in 1..Len(cands) :
          /\ cands[i].uri \in TextUrls(trial.text)
          /\ \/ \E k \in 1..count : cands[i].title = <<"Result ", ToString(k)>>
             \/ IsHarvested(cands[i])
  /\ (pc = "done" /\ count > 0) =>
       /\ outcome.kind = "returned"
       /\ trial.text.body # "array" => TextUrls(trial.text) = {}

\* C26: an operation that was in flight when Stop was pressed never writes
\* its result into the state of the application.
C26_StoppedNeverApplies ==
  \A i \in 1..Len(ops.list) : ops.list[i].stopped => ~ops.list[i].applied

\* An inspiration search that is in flight and was not cancelled.
LiveFind(i) ==
  /\ ops.list[i].kind = "find"
  /\ ops.list[i].running
  /\ ~ops.list[i].aborted

\* C27: while an inspiration search that was not cancelled is in flight,
\* the late end of an earlier operation that the user had stopped (its
\* result, its failure, its finally block) leaves isLoading true, error
\* null and the step as they are.
C27_LateSettleLeavesNewOperation ==
  [][\A i \in 1..Len(ops.list) :
        (/\ ops.list[i].running
         /\ ~ops'.list[i].running
         /\ ops.list[i].stopped
         /\ \E j \in i + 1..Len(ops.list) : LiveFind(j)) =>
           /\ isLoading /\ isLoading'
           /\ error = "null" /\ error' = "null"
           /\ appStep' = appStep]_vars

\* C28: the history list holds no two items with the same non-empty hash
\* and no two items with the same file name.
C28_NoDuplicateItems ==
  \A k, l \in 1..Len(hist.items) :
     k # l =>
       /\ hist.items[k].fileName # hist.items[l].fileName
       /\ hist.items[k].hash # "" => hist.items[k].hash # hist.items[l].hash

\* C29: selectedItemId is null or the id of an item of the list.
C29_SelectionInList ==
  \/ hist.selectedItemId = 0
  \/ \E k \in 1..Len(hist.items) : hist.items[k].id = hist.selectedItemId

\* C30: the background saves in flight have distinct keys and their keys are
\* the pending keys; a step that makes a key pending does so for a key that
\* has not succeeded; a step that ends a pending save, with any outcome,
\* leaves its key in exactly one of succeededSaves and failedSaves; and, the
\* requests settling, every pending key is removed again (the saves of a
\* behaviour being finitely many, pendingSaves is empty again and again).
C30_OneSavePerKey ==
  /\ [](/\ \A r1, r2 \in hist.inflight : r1.key = r2.key => r1 = r2
        /\ hist.pendingSaves = {r.key : r \in hist.inflight})
  /\ [][/\ \A key \in hist'.pendingSaves \ hist.pendingSaves :
             key \notin hist.succeededSaves
        /\ \A key \in hist.pendingSaves \ hist'.pendingSaves :
             (key \in hist'.succeededSaves) # (key \in hist'.failedSaves)]_vars
  /\ []<>(hist.pendingSaves = {})

C30_Witness ==
  /\ hist.succeededSaves # {}
  /\ hist.failedSaves # {}
  /\ hist.pendingSaves # {}

=============================================================================
